---- MODULE Spec2Model ----
(***************************************************************************)
(* Slice-backed containers of apotourlyan/godatastructures.                *)
(*                                                                         *)
(*   SliceQueue  internal/queues/structures/slice_queue.go                 *)
(*   SliceStack  internal/stacks/structures                                *)
(*   LinkedListQueue  internal/queues/structures                           *)
(*   BasicLinkedList  internal/lists/structures                            *)
(*   Reallocate  internal/slices/algorithms                                *)
(*                                                                         *)
(* A Go slice is modelled by its visible elements (a sequence whose        *)
(* length is len(data)) and its capacity cap(data).  Go indexes from 0,    *)
(* TLA+ sequences from 1: At(data, i) is data[i].  Values are numbered in  *)
(* the order they enter a container (1, 2, 3, ...), so every value is      *)
(* distinct and order can be observed; 0 is the zero value of T.           *)
(***************************************************************************)
EXTENDS Integers, Sequences, FiniteSets, TLC

VARIABLES q, qlast, enqueued, dequeued, maxsize,
          s, slast, popped, npushed, peakcap,
          lq, lqlast,
          call,
          list, llast,
          arr, alast

qvars == <<q, qlast, enqueued, dequeued, maxsize>>
svars == <<s, slast, popped, npushed, peakcap>>
lvars == <<lq, lqlast>>
pvars == <<call>>
tvars == <<list, llast>>
avars == <<arr, alast>>
vars == <<q, qlast, enqueued, dequeued, maxsize,
          s, slast, popped, npushed, peakcap, lq, lqlast, call,
          list, llast, arr, alast>>

(***************************************************************************)
(* Bounds of the model.                                                    *)
(***************************************************************************)
\* values that enter the queue in one run (initial values included)
MaxValues == 7
\* values handed to a constructor
MaxInit == 4
\* values pushed on the stack in one run (initial values included)
MaxPushes == 6
\* values pushed on an empty stack before it is drained
MaxFill == 17
\* length and capacity of a slice handed to Compact or Reallocate
MaxLen == 5
MaxCap == 16
\* nodes a LinkedList holds at most, and values its constructor is given
MaxNodes == 5
MaxListInit == 2
\* elements a StandardArray is built from at most
MaxArray == 3

(***************************************************************************)
(* Configuration values the constructors are called with: valid ones,      *)
(* boundary ones and malformed ones.                                       *)
(***************************************************************************)
MinLengthValues == {-1, 0, 2}
PercentValues == {-10, 0, 50, 75, 100, 150}
BufferValues == {-1, 0, 80, 99, 100}

Zero == 0
NoError == ""
ErrorEmptyQueue == "queue is empty"
ErrorEmptyStack == "stack is empty"
ErrorEmptyList == "list is empty"
ErrorIndexOutOfRange == "index is out of the range of possible values"

(***************************************************************************)
(* Go slice primitives.                                                    *)
(***************************************************************************)
Max(a, b) == IF a >= b THEN a ELSE b

\* data[i]
At(data, i) == data[i + 1]

\* data[lo:hi]
Slice(data, lo, hi) == SubSeq(data, lo + 1, hi)

\* copy done element by element from the last index down, for a src that
\* is the tail of dst: a slot read after it was written gives the new value
CopyFromLast(dst, src) ==
    LET k == Len(dst) - Len(src)
        val[i \in 1..Len(src)] ==
            IF k > 0 /\ i + k <= Len(src) THEN val[i + k] ELSE src[i]
    IN [i \in 1..Len(dst) |-> IF i <= Len(src) THEN val[i] ELSE dst[i]]

\* copy(dst, src): min(len(dst), len(src)) elements, overlap-safe (memmove)
Copy(dst, src) ==
    [i \in 1..Len(dst) |-> IF i <= Len(src) THEN src[i] ELSE dst[i]]

\* capacity after append(data, v) of one element: unchanged while there is
\* room, otherwise the runtime's amortised growth (doubling for small slices)
AppendCap(len, cap) ==
    IF len < cap THEN cap
    ELSE IF cap = 0 THEN 1 ELSE 2 * cap

\* 1, 2, ..., n: the values a constructor is given
Values(n) == [i \in 1..n |-> i]

(***************************************************************************)
(* SliceQueue                                                              *)
(***************************************************************************)
SliceQueueConfig ==
    [CompactOnEnqueue : BOOLEAN,
     ReallocateOnDequeue : BOOLEAN,
     MinOptimizationLength : MinLengthValues,
     CompactWastePercent : PercentValues,
     ReallocateWastePercent : PercentValues]

\* the configuration NewSliceQueue builds
DefaultQueueConfig ==
    [CompactOnEnqueue |-> TRUE,
     ReallocateOnDequeue |-> FALSE,
     MinOptimizationLength |-> 100,
     CompactWastePercent |-> 50,
     ReallocateWastePercent |-> 75]

NewSliceQueueWithConfig(config, values) ==
    [curr |-> 0, data |-> values, cap |-> Len(values), config |-> config]

NewSliceQueue(values) == NewSliceQueueWithConfig(DefaultQueueConfig, values)

Size(qq) == Len(qq.data) - qq.curr

\* IsEmpty with an off-by-one comparison
IsEmptyOffByOne(qq) == Size(qq) <= 1

IsEmpty(qq) == Size(qq) = 0

\* the flag with its waste comparison turned round: set while the live
\* elements are more than CompactWastePercent of the slice
EnqueueOptimizeWhenFull(qq) ==
    /\ qq.config.CompactOnEnqueue
    /\ qq.curr >= qq.config.MinOptimizationLength
    /\ 100 * Size(qq) > qq.config.CompactWastePercent * Len(qq.data)

\* the `optimize` flag of Enqueue
EnqueueOptimize(qq) ==
    /\ qq.config.CompactOnEnqueue
    /\ qq.curr >= qq.config.MinOptimizationLength
    /\ 100 * Size(qq) < qq.config.CompactWastePercent * Len(qq.data)

\* the compaction without q.curr = 0
EnqueueCompactKeepsCurr(qq) ==
    [qq EXCEPT !.data = Slice(Copy(qq.data, Slice(qq.data, qq.curr, Len(qq.data))),
                              0, Len(qq.data) - qq.curr)]

\* the compaction without its copy: reslices and resets curr only
EnqueueCompactNoShift(qq) ==
    [qq EXCEPT !.data = Slice(qq.data, 0, Len(qq.data) - qq.curr),
               !.curr = 0]

\* the compaction done into a fresh slice of exactly the live size
\* instead of in place
EnqueueCompactIntoFresh(qq) ==
    [qq EXCEPT !.data = Slice(qq.data, qq.curr, Len(qq.data)),
               !.cap = Len(qq.data) - qq.curr,
               !.curr = 0]

\* the body of `if optimize` in Enqueue
EnqueueCompact(qq) ==
    [qq EXCEPT !.data = Slice(Copy(qq.data, Slice(qq.data, qq.curr, Len(qq.data))),
                              0, Len(qq.data) - qq.curr),
               !.curr = 0]

\* q.data = append(q.data, value)
EnqueueAppend(qq, value) ==
    [qq EXCEPT !.data = Append(qq.data, value),
               !.cap = AppendCap(Len(qq.data), qq.cap)]

EnqueueResult(qq, value) ==
    EnqueueAppend(IF EnqueueOptimize(qq) THEN EnqueueCompact(qq) ELSE qq, value)

\* v := q.data[q.curr]
DequeueValue(qq) == At(qq.data, qq.curr)

\* q.curr++
DequeueAdvance(qq) == [qq EXCEPT !.curr = qq.curr + 1]

\* the flag without its ReallocateOnDequeue conjunct
DequeueOptimizeUnflagged(qq) ==
    /\ qq.curr >= qq.config.MinOptimizationLength
    /\ 100 * Size(qq) < (100 - qq.config.ReallocateWastePercent) * qq.cap

\* the `optimize` flag of Dequeue, evaluated after q.curr++
DequeueOptimize(qq) ==
    /\ qq.config.ReallocateOnDequeue
    /\ qq.curr >= qq.config.MinOptimizationLength
    /\ 100 * Size(qq) < (100 - qq.config.ReallocateWastePercent) * qq.cap

\* the reallocation into a slice of exactly the live size
DequeueReallocateExactCap(qq) ==
    LET data == Slice(qq.data, qq.curr, Len(qq.data))
    IN [qq EXCEPT !.data = data,
                  !.cap = Len(data),
                  !.curr = 0]

\* the reallocation without q.curr = 0
DequeueReallocateKeepsCurr(qq) ==
    LET data == Slice(qq.data, qq.curr, Len(qq.data))
    IN [qq EXCEPT !.data = data,
                  !.cap = Max(Len(data) * 2, 10)]

\* the reallocation with its copy starting one slot early, at the element
\* just dequeued
DequeueReallocateFromDequeued(qq) ==
    LET data == Slice(qq.data, qq.curr - 1, Len(qq.data))
    IN [qq EXCEPT !.data = data,
                  !.cap = Max(Len(data) * 2, 10),
                  !.curr = 0]

\* the body of `if optimize` in Dequeue
DequeueReallocate(qq) ==
    LET data == Slice(qq.data, qq.curr, Len(qq.data))
    IN [qq EXCEPT !.data = data,
                  !.cap = Max(Len(data) * 2, 10),
                  !.curr = 0]

DequeueResult(qq) ==
    LET adv == DequeueAdvance(qq)
    IN IF DequeueOptimize(adv) THEN DequeueReallocate(adv) ELSE adv

\* Peek that reads slot 0 instead of slot curr
PeekFirstSlot(qq) == At(qq.data, 0)

\* what Peek returns on a non-empty queue
PeekValue(qq) == At(qq.data, qq.curr)

\* the record of the last call: its name, what it returned, whether it
\* panicked, whether its optimisation branch ran, and the queue before it.
\* No SliceQueue method validates the configuration or calls a function
\* that does, and every index it uses is in range, so no call panics.
QCall(op, val, err, optimized, pre) ==
    [op |-> op, val |-> val, err |-> err, panicked |-> FALSE,
     optimized |-> optimized, pre |-> pre]

\* a method is called on a queue that a constructor has returned
QueueBuilt == "config" \in DOMAIN q

QInit ==
    \E n \in 0..MaxInit :
        /\ \/ /\ q = NewSliceQueue(Values(n))
              /\ qlast = QCall("NewSliceQueue", Zero, NoError, FALSE, q)
           \/ \E config \in SliceQueueConfig :
                 /\ q = NewSliceQueueWithConfig(config, Values(n))
                 /\ qlast = QCall("NewSliceQueueWithConfig", Zero, NoError, FALSE, q)
        /\ enqueued = Values(n)
        /\ dequeued = <<>>
        /\ maxsize = n

\* q.Enqueue(value) with the next value; maxsize records the largest Size()
\* the queue has had
EnqueueCall ==
    /\ QueueBuilt
    /\ Len(enqueued) < MaxValues
    /\ LET value == Len(enqueued) + 1
       IN /\ q' = EnqueueResult(q, value)
          /\ enqueued' = Append(enqueued, value)
          /\ qlast' = QCall("Enqueue", Zero, NoError, EnqueueOptimize(q), q)
          /\ maxsize' = Max(maxsize, Size(EnqueueResult(q, value)))
    /\ UNCHANGED dequeued

\* q.Dequeue()
DequeueCall ==
    /\ QueueBuilt
    /\ IF IsEmpty(q)
       THEN /\ qlast' = QCall("Dequeue", Zero, ErrorEmptyQueue, FALSE, q)
            /\ UNCHANGED <<q, dequeued>>
       ELSE /\ q' = DequeueResult(q)
            /\ dequeued' = Append(dequeued, DequeueValue(q))
            /\ qlast' = QCall("Dequeue", DequeueValue(q), NoError,
                              DequeueOptimize(DequeueAdvance(q)), q)
    /\ UNCHANGED <<enqueued, maxsize>>

\* q.Peek()
PeekCall ==
    /\ QueueBuilt
    /\ qlast' = IF IsEmpty(q)
                THEN QCall("Peek", Zero, ErrorEmptyQueue, FALSE, q)
                ELSE QCall("Peek", PeekValue(q), NoError, FALSE, q)
    /\ UNCHANGED <<q, enqueued, dequeued, maxsize>>

\* q.Size()
SizeCall ==
    /\ QueueBuilt
    /\ qlast' = QCall("Size", Size(q), NoError, FALSE, q)
    /\ UNCHANGED <<q, enqueued, dequeued, maxsize>>

\* q.IsEmpty()
IsEmptyCall ==
    /\ QueueBuilt
    /\ qlast' = QCall("IsEmpty", IsEmpty(q), NoError, FALSE, q)
    /\ UNCHANGED <<q, enqueued, dequeued, maxsize>>

Enqueue ==
    EnqueueCall /\ UNCHANGED <<lvars, svars, pvars, tvars, avars>>

Dequeue ==
    DequeueCall /\ UNCHANGED <<lvars, svars, pvars, tvars, avars>>

Peek ==
    PeekCall /\ UNCHANGED <<lvars, svars, pvars, tvars, avars>>

(***************************************************************************)
(* Compact (internal/slices/algorithms)                                    *)
(***************************************************************************)
SliceCompactionParams(start, minSize, wastePercent) ==
    [UsedStart |-> start, MinSize |-> minSize, WastePercent |-> wastePercent]

\* validate without the upper bound of WastePercent
CompactionParamsValidNoUpperBound(p, length) ==
    /\ p.UsedStart >= 0
    /\ IF length > 0 THEN p.UsedStart < length ELSE p.UsedStart = length
    /\ p.MinSize >= 0
    /\ p.WastePercent >= 0

\* SliceCompactionParams.validate returns instead of panicking
CompactionParamsValid(p, length) ==
    /\ p.UsedStart >= 0
    /\ IF length > 0 THEN p.UsedStart < length ELSE p.UsedStart = length
    /\ p.MinSize >= 0
    /\ p.WastePercent >= 0
    /\ p.WastePercent <= 100

\* wastePercent := 100 - 100*used/length; used and length are not negative
\* here, where Go's truncating division is \div
CompactWastePercent(used, length) == 100 - (100 * used) \div length

\* shouldCompact with a strict waste comparison
ShouldCompactStrictWaste(length, p) ==
    LET used == length - p.UsedStart
    IN /\ used >= p.MinSize
       /\ CompactWastePercent(used, length) > p.WastePercent
       /\ p.UsedStart > 0

\* shouldCompact without the MinSize conjunct
ShouldCompactAnySize(length, p) ==
    LET used == length - p.UsedStart
    IN /\ CompactWastePercent(used, length) >= p.WastePercent
       /\ p.UsedStart > 0

\* shouldCompact
ShouldCompact(length, p) ==
    LET used == length - p.UsedStart
    IN /\ used >= p.MinSize
       /\ CompactWastePercent(used, length) >= p.WastePercent
       /\ p.UsedStart > 0

\* Compact(data, p) for a slice of capacity cap: the returned slice, its
\* capacity and start; `array` is what the caller's slice holds after the
\* call (copy writes into the shared backing array), `fresh` whether the
\* returned slice has a backing array of its own; `panicked` when validate
\* panics (nothing is returned then), `triggered` when the elements were
\* shifted
Compact(data, cap, p) ==
    IF ~CompactionParamsValid(p, Len(data))
    THEN [panicked |-> TRUE, triggered |-> FALSE, fresh |-> FALSE,
          data |-> data, cap |-> cap, start |-> p.UsedStart, array |-> data]
    ELSE IF Len(data) = 0
    THEN [panicked |-> FALSE, triggered |-> FALSE, fresh |-> FALSE,
          data |-> data, cap |-> cap, start |-> 0, array |-> data]
    ELSE IF ShouldCompact(Len(data), p)
    THEN LET used == Len(data) - p.UsedStart
             copied == Copy(data, Slice(data, p.UsedStart, Len(data)))
         IN [panicked |-> FALSE, triggered |-> TRUE, fresh |-> FALSE,
             data |-> Slice(copied, 0, used), cap |-> cap, start |-> 0,
             array |-> copied]
    ELSE [panicked |-> FALSE, triggered |-> FALSE, fresh |-> FALSE,
          data |-> data, cap |-> cap, start |-> p.UsedStart, array |-> data]

(***************************************************************************)
(* Reallocate (internal/slices/algorithms)                                 *)
(***************************************************************************)
SliceReallocationParams(start, end, minSize, wastePercent, wasteBuffer) ==
    [UsedStart |-> start, UsedEnd |-> end, MinSize |-> minSize,
     WastePercent |-> wastePercent, WasteBuffer |-> wasteBuffer]

\* validate with UsedEnd required to be below the length
ReallocationParamsValidEndInside(p, length) ==
    /\ p.UsedStart >= 0
    /\ p.UsedEnd >= 0
    /\ IF length > 0
       THEN p.UsedStart < p.UsedEnd /\ p.UsedEnd < length
       ELSE p.UsedStart = 0 /\ p.UsedEnd = 0
    /\ p.MinSize >= 0
    /\ p.WastePercent >= 0
    /\ p.WastePercent <= 100
    /\ p.WasteBuffer >= 0
    /\ p.WasteBuffer <= 99

\* validate that admits a WasteBuffer of 100
ReallocationParamsValidBufferTo100(p, length) ==
    /\ p.UsedStart >= 0
    /\ p.UsedEnd >= 0
    /\ IF length > 0
       THEN p.UsedStart < p.UsedEnd /\ p.UsedEnd <= length
       ELSE p.UsedStart = 0 /\ p.UsedEnd = 0
    /\ p.MinSize >= 0
    /\ p.WastePercent >= 0
    /\ p.WastePercent <= 100
    /\ p.WasteBuffer >= 0
    /\ p.WasteBuffer <= 100

\* SliceReallocationParams.validate returns instead of panicking
ReallocationParamsValid(p, length) ==
    /\ p.UsedStart >= 0
    /\ p.UsedEnd >= 0
    /\ IF length > 0
       THEN p.UsedStart < p.UsedEnd /\ p.UsedEnd <= length
       ELSE p.UsedStart = 0 /\ p.UsedEnd = 0
    /\ p.MinSize >= 0
    /\ p.WastePercent >= 0
    /\ p.WastePercent <= 100
    /\ p.WasteBuffer >= 0
    /\ p.WasteBuffer <= 99

\* the waste as the truncated quotient of the unused part
ReallocateWastePercentOfUnused(used, cap) == (100 * (cap - used)) \div cap

\* wastePercent := 100 - 100*used/cap(data); used and cap(data) are not
\* negative here, where Go's truncating division is \div
ReallocateWastePercent(used, cap) == 100 - (100 * used) \div cap

\* shouldReallocate with Compact's third conjunct
ShouldReallocateOffsetOnly(cap, p) ==
    LET used == p.UsedEnd - p.UsedStart
    IN /\ used >= p.MinSize
       /\ ReallocateWastePercent(used, cap) >= p.WastePercent
       /\ p.UsedStart > 0

\* shouldReallocate
ShouldReallocate(cap, p) ==
    LET used == p.UsedEnd - p.UsedStart
    IN /\ used >= p.MinSize
       /\ ReallocateWastePercent(used, cap) >= p.WastePercent

\* capacity of append(make([]T, 0, cap), usedData...) for n elements: cap
\* when they fit, a grown array otherwise (at least n, amortised doubling)
AppendSliceCap(cap, n) == IF n <= cap THEN cap ELSE Max(n, 2 * cap)

\* targetCapacity without the floor of 10
TargetCapacityNoFloor(used, p) ==
    LET targetPercent == (p.WastePercent * p.WasteBuffer) \div 100
    IN (used * 100) \div (100 - targetPercent)

\* targetCapacity
TargetCapacity(used, p) ==
    LET targetPercent == (p.WastePercent * p.WasteBuffer) \div 100
    IN Max((used * 100) \div (100 - targetPercent), 10)

\* Reallocate(data, p) for a slice of capacity cap: the returned slice, its
\* capacity, start and end; `array` is what the caller's slice holds after
\* the call, `fresh` whether the returned slice has a backing array of its
\* own (made by make); `panicked` when validate panics (nothing is returned
\* then), `triggered` when a new slice was made
Reallocate(data, cap, p) ==
    IF ~ReallocationParamsValid(p, Len(data))
    THEN [panicked |-> TRUE, triggered |-> FALSE, fresh |-> FALSE,
          data |-> data, cap |-> cap, start |-> p.UsedStart, end |-> p.UsedEnd,
          array |-> data]
    ELSE IF Len(data) = 0
    THEN [panicked |-> FALSE, triggered |-> FALSE, fresh |-> FALSE,
          data |-> data, cap |-> cap, start |-> 0, end |-> 0, array |-> data]
    ELSE IF ShouldReallocate(cap, p)
    THEN LET rData == Slice(data, p.UsedStart, p.UsedEnd)
         IN [panicked |-> FALSE, triggered |-> TRUE, fresh |-> TRUE,
             data |-> rData,
             cap |-> AppendSliceCap(TargetCapacity(p.UsedEnd - p.UsedStart, p),
                                    Len(rData)),
             start |-> 0, end |-> Len(rData), array |-> data]
    ELSE [panicked |-> FALSE, triggered |-> FALSE, fresh |-> FALSE,
          data |-> data, cap |-> cap, start |-> p.UsedStart, end |-> p.UsedEnd,
          array |-> data]

(***************************************************************************)
(* SliceStack                                                              *)
(***************************************************************************)
SliceStackConfig ==
    [ReallocateOnPop : BOOLEAN,
     MinOptimizationLength : MinLengthValues,
     ReallocateWastePercent : PercentValues,
     ReallocateWasteBuffer : BufferValues]

\* the configuration NewSliceStack builds
DefaultStackConfig ==
    [ReallocateOnPop |-> TRUE,
     MinOptimizationLength |-> 100,
     ReallocateWastePercent |-> 75,
     ReallocateWasteBuffer |-> 80]

NewSliceStackWithConfig(config, values) ==
    [curr |-> Len(values), data |-> values, cap |-> Len(values), config |-> config]

NewSliceStack(values) == NewSliceStackWithConfig(DefaultStackConfig, values)

StackIsEmpty(ss) == ss.curr = 0

StackSize(ss) == ss.curr

\* Push that always appends, also when curr < len(data)
PushAlwaysAppend(ss, value) ==
    [ss EXCEPT !.data = Append(ss.data, value),
               !.cap = AppendCap(Len(ss.data), ss.cap),
               !.curr = ss.curr + 1]

\* Push that overwrites the last slot of the buffer instead of slot curr
PushOverwriteLastSlot(ss, value) ==
    IF ss.curr = Len(ss.data)
    THEN [ss EXCEPT !.data = Append(ss.data, value),
                    !.cap = AppendCap(Len(ss.data), ss.cap),
                    !.curr = ss.curr + 1]
    ELSE [ss EXCEPT !.data = [ss.data EXCEPT ![Len(ss.data)] = value],
                    !.curr = ss.curr + 1]

\* Push: append when curr == len(data), else overwrite slot curr; curr++
PushResult(ss, value) ==
    IF ss.curr = Len(ss.data)
    THEN [ss EXCEPT !.data = Append(ss.data, value),
                    !.cap = AppendCap(Len(ss.data), ss.cap),
                    !.curr = ss.curr + 1]
    ELSE [ss EXCEPT !.data = [ss.data EXCEPT ![ss.curr + 1] = value],
                    !.curr = ss.curr + 1]

\* v := s.data[s.curr-1]
PopValue(ss) == At(ss.data, ss.curr - 1)

\* s.curr--
PopAdvance(ss) == [ss EXCEPT !.curr = ss.curr - 1]

\* the call with the two percentages of the configuration exchanged
PopReallocateSwappedPercents(ss) ==
    Reallocate(ss.data, ss.cap,
               SliceReallocationParams(0, ss.curr,
                                       ss.config.MinOptimizationLength,
                                       ss.config.ReallocateWasteBuffer,
                                       ss.config.ReallocateWastePercent))

\* the call Pop makes to algorithms.Reallocate, after s.curr--
PopReallocate(ss) ==
    Reallocate(ss.data, ss.cap,
               SliceReallocationParams(0, ss.curr,
                                       ss.config.MinOptimizationLength,
                                       ss.config.ReallocateWastePercent,
                                       ss.config.ReallocateWasteBuffer))

\* Pop without its `if s.curr == 0` branch: Reallocate is called for the
\* emptied stack too
PopResultNoReset(ss) ==
    LET adv == PopAdvance(ss)
    IN IF adv.config.ReallocateOnPop
       THEN LET r == PopReallocate(adv)
            IN IF r.panicked THEN adv
               ELSE [adv EXCEPT !.data = r.data, !.cap = r.cap, !.curr = r.end]
       ELSE adv

\* the stack a non-empty Pop leaves: s.curr-- has happened when Reallocate
\* is called, so a panic in Reallocate leaves the decremented curr and the
\* old slice (the assignment of the results never runs)
PopResult(ss) ==
    LET adv == PopAdvance(ss)
    IN IF adv.curr = 0
       THEN [adv EXCEPT !.data = Slice(adv.data, 0, 0)]
       ELSE IF adv.config.ReallocateOnPop
       THEN LET r == PopReallocate(adv)
            IN IF r.panicked THEN adv
               ELSE [adv EXCEPT !.data = r.data, !.cap = r.cap, !.curr = r.end]
       ELSE adv

\* whether the non-empty Pop of ss calls Reallocate
PopCallsReallocate(ss) ==
    PopAdvance(ss).curr # 0 /\ ss.config.ReallocateOnPop

PopPanics(ss) == PopCallsReallocate(ss) /\ PopReallocate(PopAdvance(ss)).panicked

PopReallocates(ss) == PopCallsReallocate(ss) /\ PopReallocate(PopAdvance(ss)).triggered

\* Peek that reads the last slot of the buffer instead of slot curr-1
StackPeekLastSlot(ss) == At(ss.data, Len(ss.data) - 1)

\* what Peek returns on a non-empty stack: s.data[s.curr-1]
StackPeekValue(ss) == At(ss.data, ss.curr - 1)

\* the record of the last call on the stack
SCall(op, val, err, panicked, optimized, pre) ==
    [op |-> op, val |-> val, err |-> err, panicked |-> panicked,
     optimized |-> optimized, pre |-> pre]

\* a method is called on a stack that a constructor has returned
StackBuilt == "config" \in DOMAIN s

SInit ==
    \E n \in 0..MaxInit :
        /\ \/ /\ s = NewSliceStack(Values(n))
              /\ slast = SCall("NewSliceStack", Zero, NoError, FALSE, FALSE, s)
           \/ \E config \in SliceStackConfig :
                 /\ s = NewSliceStackWithConfig(config, Values(n))
                 /\ slast = SCall("NewSliceStackWithConfig", Zero, NoError, FALSE, FALSE, s)
        /\ popped = <<>>
        /\ npushed = n
        /\ peakcap = s.cap

\* peakcap records the largest capacity the pushes have reached
Push ==
    /\ StackBuilt
    /\ npushed < MaxPushes
    /\ LET value == npushed + 1
       IN /\ s' = PushResult(s, value)
          /\ npushed' = npushed + 1
          /\ slast' = SCall("Push", Zero, NoError, FALSE, FALSE, s)
          /\ peakcap' = Max(peakcap, PushResult(s, value).cap)
    /\ UNCHANGED popped
    /\ UNCHANGED <<qvars, lvars, pvars, tvars, avars>>

\* a panicking Pop returns nothing; the caller may recover (panics.CatchPanic)
\* and go on using the stack
Pop ==
    /\ StackBuilt
    /\ IF StackIsEmpty(s)
       THEN /\ slast' = SCall("Pop", Zero, ErrorEmptyStack, FALSE, FALSE, s)
            /\ UNCHANGED <<s, popped>>
       ELSE /\ s' = PopResult(s)
            /\ popped' = IF PopPanics(s) THEN popped
                          ELSE Append(popped, PopValue(s))
            /\ slast' = IF PopPanics(s)
                        THEN SCall("Pop", Zero, NoError, TRUE, FALSE, s)
                        ELSE SCall("Pop", PopValue(s), NoError, FALSE,
                                   PopReallocates(s), s)
    /\ UNCHANGED <<npushed, peakcap>>
    /\ UNCHANGED <<qvars, lvars, pvars, tvars, avars>>

StackPeek ==
    /\ StackBuilt
    /\ slast' = IF StackIsEmpty(s)
                THEN SCall("Peek", Zero, ErrorEmptyStack, FALSE, FALSE, s)
                ELSE SCall("Peek", StackPeekValue(s), NoError, FALSE, FALSE, s)
    /\ UNCHANGED <<s, popped, npushed, peakcap>>
    /\ UNCHANGED <<qvars, lvars, pvars, tvars, avars>>

(***************************************************************************)
(* BasicLinkedList (internal/lists/structures)                             *)
(*                                                                         *)
(* The heap is the sequence of the nodes allocated so far: node i is       *)
(* nodes[i] and a pointer is an index, Nil the nil pointer.  Nodes that    *)
(* are no longer reachable stay in the sequence, as they stay in memory    *)
(* until collected.                                                        *)
(***************************************************************************)
Nil == 0

LinkedListNode(value, next) == [Value |-> value, Next |-> next]

\* the dummy node the constructor chains from is never reachable from the
\* list and is left out of the heap
NewBasicLinkedList(values) ==
    IF Len(values) = 0
    THEN [nodes |-> <<>>, head |-> Nil, tail |-> Nil, size |-> 0]
    ELSE [nodes |-> [i \in 1..Len(values) |->
                        LinkedListNode(values[i],
                                       IF i < Len(values) THEN i + 1 ELSE Nil)],
          head |-> 1, tail |-> Len(values), size |-> Len(values)]

\* AddLast without l.tail.Next = tail: the new node becomes the tail but is
\* never linked behind the old one
AddLastUnlinked(l, value) ==
    LET tail == Len(l.nodes) + 1
        nodes == Append(l.nodes, LinkedListNode(value, Nil))
    IN [nodes |-> nodes, head |-> IF l.head = Nil THEN tail ELSE l.head,
        tail |-> tail, size |-> l.size + 1]

AddLast(l, value) ==
    LET tail == Len(l.nodes) + 1
        nodes == Append(l.nodes, LinkedListNode(value, Nil))
    IN IF l.head = Nil
       THEN [nodes |-> nodes, head |-> tail, tail |-> tail, size |-> l.size + 1]
       ELSE [nodes |-> [nodes EXCEPT ![l.tail].Next = tail],
             head |-> l.head, tail |-> tail, size |-> l.size + 1]

\* the list RemoveFirst leaves (its boolean result is whether head was set)
RemoveFirst(l) ==
    IF l.head = Nil THEN l
    ELSE IF l.head = l.tail
    THEN [l EXCEPT !.head = Nil, !.tail = Nil, !.size = l.size - 1]
    ELSE [l EXCEPT !.nodes = [l.nodes EXCEPT ![l.head].Next = Nil],
                   !.head = l.nodes[l.head].Next,
                   !.size = l.size - 1]

\* First: the value and the error
First(l) ==
    IF l.head = Nil
    THEN [val |-> Zero, err |-> ErrorEmptyList]
    ELSE [val |-> l.nodes[l.head].Value, err |-> NoError]

ListIsEmpty(l) == l.size = 0

ListSize(l) == l.size

(***************************************************************************)
(* LinkedList: BasicLinkedList and the operations by index and by value    *)
(***************************************************************************)
NewLinkedList(values) == NewBasicLinkedList(values)

AddFirst(l, value) ==
    LET head == Len(l.nodes) + 1
        nodes == Append(l.nodes, LinkedListNode(value, l.head))
    IN [nodes |-> nodes, head |-> head,
        tail |-> IF l.tail = Nil THEN head ELSE l.tail,
        size |-> l.size + 1]

\* for node.Next != l.tail { node = node.Next }
RECURSIVE BeforeTail(_, _)
BeforeTail(l, node) ==
    IF l.nodes[node].Next = l.tail THEN node
    ELSE BeforeTail(l, l.nodes[node].Next)

\* the list RemoveLast leaves (its boolean result is whether head was set)
RemoveLast(l) ==
    IF l.head = Nil THEN l
    ELSE IF l.head = l.tail
    THEN [l EXCEPT !.head = Nil, !.tail = Nil, !.size = l.size - 1]
    ELSE LET node == BeforeTail(l, l.head)
         IN [l EXCEPT !.nodes = [l.nodes EXCEPT ![node].Next = Nil],
                      !.tail = node,
                      !.size = l.size - 1]

\* for range steps { node = node.Next }
RECURSIVE NodeAfter(_, _, _)
NodeAfter(nodes, node, steps) ==
    IF steps <= 0 THEN node
    ELSE NodeAfter(nodes, nodes[node].Next, steps - 1)

\* what a method by index or by value returns, and the list it leaves
LResult(l, val, err, ok) == [list |-> l, val |-> val, err |-> err, ok |-> ok]

\* InsertAt whose range check rejects index == size
InsertAtRejectsAppend(l, index, value) ==
    LET new == Len(l.nodes) + 1
    IN IF index < 0 \/ index >= l.size
       THEN LResult(l, Zero, ErrorIndexOutOfRange, FALSE)
       ELSE IF index = 0
       THEN LResult([nodes |-> Append(l.nodes, LinkedListNode(value, l.head)),
                     head |-> new,
                     tail |-> IF l.size = 0 THEN new ELSE l.tail,
                     size |-> l.size + 1], Zero, NoError, TRUE)
       ELSE LET prev == NodeAfter(l.nodes, l.head, index - 1)
            IN LResult([l EXCEPT
                          !.nodes = Append([l.nodes EXCEPT ![prev].Next = new],
                                           LinkedListNode(value, l.nodes[prev].Next)),
                          !.size = l.size + 1], Zero, NoError, TRUE)

\* InsertAt whose traversal stops one node late: the value goes behind the
\* node at index
InsertAtBehindIndex(l, index, value) ==
    LET new == Len(l.nodes) + 1
    IN IF index < 0 \/ index > l.size
       THEN LResult(l, Zero, ErrorIndexOutOfRange, FALSE)
       ELSE IF index = 0
       THEN LResult([nodes |-> Append(l.nodes, LinkedListNode(value, l.head)),
                     head |-> new,
                     tail |-> IF l.size = 0 THEN new ELSE l.tail,
                     size |-> l.size + 1], Zero, NoError, TRUE)
       ELSE IF index = l.size
       THEN LResult([nodes |-> Append([l.nodes EXCEPT ![l.tail].Next = new],
                                      LinkedListNode(value, Nil)),
                     head |-> l.head, tail |-> new, size |-> l.size + 1],
                    Zero, NoError, TRUE)
       ELSE LET prev == NodeAfter(l.nodes, l.head, index)
            IN LResult([l EXCEPT
                          !.nodes = Append([l.nodes EXCEPT ![prev].Next = new],
                                           LinkedListNode(value, l.nodes[prev].Next)),
                          !.tail = IF prev = l.tail THEN new ELSE l.tail,
                          !.size = l.size + 1], Zero, NoError, TRUE)

InsertAt(l, index, value) ==
    LET new == Len(l.nodes) + 1
    IN IF index < 0 \/ index > l.size
       THEN LResult(l, Zero, ErrorIndexOutOfRange, FALSE)
       ELSE IF index = 0
       THEN LResult([nodes |-> Append(l.nodes, LinkedListNode(value, l.head)),
                     head |-> new,
                     tail |-> IF l.size = 0 THEN new ELSE l.tail,
                     size |-> l.size + 1], Zero, NoError, TRUE)
       ELSE IF index = l.size
       THEN LResult([nodes |-> Append([l.nodes EXCEPT ![l.tail].Next = new],
                                      LinkedListNode(value, Nil)),
                     head |-> l.head, tail |-> new, size |-> l.size + 1],
                    Zero, NoError, TRUE)
       ELSE LET prev == NodeAfter(l.nodes, l.head, index - 1)
            IN LResult([l EXCEPT
                          !.nodes = Append([l.nodes EXCEPT ![prev].Next = new],
                                           LinkedListNode(value, l.nodes[prev].Next)),
                          !.size = l.size + 1], Zero, NoError, TRUE)

UpdateAt(l, index, value) ==
    IF index < 0 \/ index >= l.size
    THEN LResult(l, Zero, ErrorIndexOutOfRange, FALSE)
    ELSE LET node == NodeAfter(l.nodes, l.head, index)
         IN LResult([l EXCEPT !.nodes = [l.nodes EXCEPT ![node].Value = value]],
                    l.nodes[node].Value, NoError, TRUE)

\* RemoveAt without `if target == l.tail { l.tail = prev }`
RemoveAtKeepsTail(l, index) ==
    IF index < 0 \/ index >= l.size
    THEN LResult(l, Zero, ErrorIndexOutOfRange, FALSE)
    ELSE IF index = 0
    THEN LET head == l.nodes[l.head].Next
         IN LResult([l EXCEPT !.head = head,
                              !.tail = IF head = Nil THEN Nil ELSE l.tail,
                              !.size = l.size - 1], Zero, NoError, TRUE)
    ELSE LET prev == NodeAfter(l.nodes, l.head, index - 1)
             target == l.nodes[prev].Next
         IN LResult([l EXCEPT
                       !.nodes = [l.nodes EXCEPT ![prev].Next = l.nodes[target].Next,
                                                 ![target].Next = Nil],
                       !.size = l.size - 1], Zero, NoError, TRUE)

RemoveAt(l, index) ==
    IF index < 0 \/ index >= l.size
    THEN LResult(l, Zero, ErrorIndexOutOfRange, FALSE)
    ELSE IF index = 0
    THEN LET head == l.nodes[l.head].Next
         IN LResult([l EXCEPT !.head = head,
                              !.tail = IF head = Nil THEN Nil ELSE l.tail,
                              !.size = l.size - 1], Zero, NoError, TRUE)
    ELSE LET prev == NodeAfter(l.nodes, l.head, index - 1)
             target == l.nodes[prev].Next
         IN LResult([l EXCEPT
                       !.nodes = [l.nodes EXCEPT ![prev].Next = l.nodes[target].Next,
                                                 ![target].Next = Nil],
                       !.tail = IF target = l.tail THEN prev ELSE l.tail,
                       !.size = l.size - 1], Zero, NoError, TRUE)

GetAt(l, index) ==
    IF index < 0 \/ index >= l.size
    THEN LResult(l, Zero, ErrorIndexOutOfRange, FALSE)
    ELSE LResult(l, l.nodes[NodeAfter(l.nodes, l.head, index)].Value, NoError, TRUE)

\* for i := 0; node != nil; i++ { if node.Value == value { return i } ... }
RECURSIVE IndexOfFrom(_, _, _, _)
IndexOfFrom(nodes, node, i, value) ==
    IF node = Nil THEN -1
    ELSE IF nodes[node].Value = value THEN i
    ELSE IndexOfFrom(nodes, nodes[node].Next, i + 1, value)

IndexOf(l, value) == IndexOfFrom(l.nodes, l.head, 0, value)

RECURSIVE ContainsFrom(_, _, _)
ContainsFrom(nodes, node, value) ==
    IF node = Nil THEN FALSE
    ELSE IF nodes[node].Value = value THEN TRUE
    ELSE ContainsFrom(nodes, nodes[node].Next, value)

Contains(l, value) == ContainsFrom(l.nodes, l.head, value)

\* for prev.Next != nil { if prev.Next.Value == value { unlink } ... }
RECURSIVE RemoveBehind(_, _, _)
RemoveBehind(l, prev, value) ==
    LET target == l.nodes[prev].Next
    IN IF target = Nil THEN LResult(l, Zero, NoError, FALSE)
       ELSE IF l.nodes[target].Value = value
       THEN LResult([l EXCEPT
                       !.nodes = [l.nodes EXCEPT ![prev].Next = l.nodes[target].Next,
                                                 ![target].Next = Nil],
                       !.tail = IF target = l.tail THEN prev ELSE l.tail,
                       !.size = l.size - 1], Zero, NoError, TRUE)
       ELSE RemoveBehind(l, target, value)

Remove(l, value) ==
    IF l.head = Nil THEN LResult(l, Zero, NoError, FALSE)
    ELSE IF l.nodes[l.head].Value = value
    THEN LResult([l EXCEPT !.tail = IF l.head = l.tail THEN Nil ELSE l.tail,
                           !.head = l.nodes[l.head].Next,
                           !.size = l.size - 1], Zero, NoError, TRUE)
    ELSE RemoveBehind(l, l.head, value)

RECURSIVE UpdateFrom(_, _, _, _)
UpdateFrom(l, node, oldValue, newValue) ==
    IF node = Nil THEN LResult(l, Zero, NoError, FALSE)
    ELSE IF l.nodes[node].Value = oldValue
    THEN LResult([l EXCEPT !.nodes = [l.nodes EXCEPT ![node].Value = newValue]],
                 Zero, NoError, TRUE)
    ELSE UpdateFrom(l, l.nodes[node].Next, oldValue, newValue)

Update(l, oldValue, newValue) ==
    IF l.head = Nil THEN LResult(l, Zero, NoError, FALSE)
    ELSE UpdateFrom(l, l.head, oldValue, newValue)

(***************************************************************************)
(* StandardArray (internal/arrays/structures)                              *)
(***************************************************************************)
\* data := make([]T, len(values)); copy(data, values)
NewStandardArray(values) ==
    [data |-> Copy([i \in 1..Len(values) |-> Zero], values)]

\* what GetAt and UpdateAt return, and the array they leave
AResult(a, val, err) == [array |-> a, val |-> val, err |-> err]

StandardArrayGetAt(a, index) ==
    IF index < 0 \/ index >= Len(a.data)
    THEN AResult(a, Zero, ErrorIndexOutOfRange)
    ELSE AResult(a, At(a.data, index), NoError)

\* UpdateAt that returns the element after the assignment
StandardArrayUpdateAtReturnsNew(a, index, value) ==
    IF index < 0 \/ index >= Len(a.data)
    THEN AResult(a, Zero, ErrorIndexOutOfRange)
    ELSE AResult([a EXCEPT !.data[index + 1] = value], value, NoError)

StandardArrayUpdateAt(a, index, value) ==
    IF index < 0 \/ index >= Len(a.data)
    THEN AResult(a, Zero, ErrorIndexOutOfRange)
    ELSE AResult([a EXCEPT !.data[index + 1] = value], At(a.data, index), NoError)

StandardArrayIsEmpty(a) == Len(a.data) = 0

StandardArraySize(a) == Len(a.data)

(***************************************************************************)
(* LinkedListQueue                                                         *)
(***************************************************************************)
NewLinkedListQueue(values) == [data |-> NewBasicLinkedList(values)]

\* the queue each method leaves and what it returns
LinkedListQueueEnqueue(lqq, value) ==
    [queue |-> [data |-> AddLast(lqq.data, value)], val |-> Zero, err |-> NoError]

LinkedListQueueDequeue(lqq) ==
    LET f == First(lqq.data)
    IN IF f.err # NoError
       THEN [queue |-> lqq, val |-> Zero, err |-> ErrorEmptyQueue]
       ELSE [queue |-> [data |-> RemoveFirst(lqq.data)], val |-> f.val, err |-> NoError]

LinkedListQueuePeek(lqq) ==
    LET f == First(lqq.data)
    IN IF f.err # NoError
       THEN [queue |-> lqq, val |-> Zero, err |-> ErrorEmptyQueue]
       ELSE [queue |-> lqq, val |-> f.val, err |-> NoError]

LinkedListQueueIsEmpty(lqq) ==
    [queue |-> lqq, val |-> ListIsEmpty(lqq.data), err |-> NoError]

LinkedListQueueSize(lqq) ==
    [queue |-> lqq, val |-> ListSize(lqq.data), err |-> NoError]

\* the record of the last call on the LinkedListQueue
LCall(op, r) == [op |-> op, val |-> r.val, err |-> r.err]

\* the LinkedListQueue built from the values the SliceQueue was built from
LInit ==
    /\ lq = NewLinkedListQueue(enqueued)
    /\ lqlast = [op |-> "NewLinkedListQueue", val |-> Zero, err |-> NoError]

\* one call of the Queue interface made on both queues
BothEnqueue ==
    /\ EnqueueCall
    /\ LET r == LinkedListQueueEnqueue(lq, Len(enqueued) + 1)
       IN lq' = r.queue /\ lqlast' = LCall("Enqueue", r)
    /\ UNCHANGED <<svars, pvars, tvars, avars>>

BothDequeue ==
    /\ DequeueCall
    /\ LET r == LinkedListQueueDequeue(lq)
       IN lq' = r.queue /\ lqlast' = LCall("Dequeue", r)
    /\ UNCHANGED <<svars, pvars, tvars, avars>>

BothPeek ==
    /\ PeekCall
    /\ LET r == LinkedListQueuePeek(lq)
       IN lq' = r.queue /\ lqlast' = LCall("Peek", r)
    /\ UNCHANGED <<svars, pvars, tvars, avars>>

BothSize ==
    /\ SizeCall
    /\ LET r == LinkedListQueueSize(lq)
       IN lq' = r.queue /\ lqlast' = LCall("Size", r)
    /\ UNCHANGED <<svars, pvars, tvars, avars>>

BothIsEmpty ==
    /\ IsEmptyCall
    /\ LET r == LinkedListQueueIsEmpty(lq)
       IN lq' = r.queue /\ lqlast' = LCall("IsEmpty", r)
    /\ UNCHANGED <<svars, pvars, tvars, avars>>

\* the stack while the queue is exercised, and the other way round
SIdle ==
    /\ s = [curr |-> 0, data |-> <<>>, cap |-> 0]
    /\ slast = "idle"
    /\ popped = <<>>
    /\ npushed = 0
    /\ peakcap = 0

QIdle ==
    /\ q = [curr |-> 0, data |-> <<>>, cap |-> 0]
    /\ qlast = "idle"
    /\ enqueued = <<>>
    /\ dequeued = <<>>
    /\ maxsize = 0

LIdle ==
    /\ lq = [data |-> NewBasicLinkedList(<<>>)]
    /\ lqlast = "idle"

\* no call of Compact or Reallocate outside a container
PIdle == call = "idle"

\* no LinkedList and no StandardArray
TIdle ==
    /\ list = NewBasicLinkedList(<<>>)
    /\ llast = [op |-> "idle"]

AIdle ==
    /\ arr = [data |-> <<>>]
    /\ alast = [op |-> "idle"]

Init == QInit /\ SIdle /\ LIdle /\ PIdle /\ TIdle /\ AIdle

Next == Enqueue \/ Dequeue \/ Peek

Spec == Init /\ [][Next]_vars

\* a SliceQueue and a LinkedListQueue built from the same values and given
\* the same calls
QueuesInit == QInit /\ LInit /\ SIdle /\ PIdle /\ TIdle /\ AIdle

QueuesNext == BothEnqueue \/ BothDequeue \/ BothPeek \/ BothSize \/ BothIsEmpty

QueuesSpec == QueuesInit /\ [][QueuesNext]_vars

StackInit == SInit /\ QIdle /\ LIdle /\ PIdle /\ TIdle /\ AIdle

StackNext == Push \/ Pop \/ StackPeek

StackSpec == StackInit /\ [][StackNext]_vars

\* Fill and drain: values are pushed on an empty stack that reallocates on
\* Pop, then popped until it is empty.  The configurations are the ones with
\* a low MinOptimizationLength and a waste threshold of at most 50.
DrainMinLengthValues == {-1, 0, 1}
DrainPercentValues == {1, 25, 50}
DrainBufferValues == {0, 50, 80, 99}

DrainStackConfig ==
    [ReallocateOnPop : {TRUE},
     MinOptimizationLength : DrainMinLengthValues,
     ReallocateWastePercent : DrainPercentValues,
     ReallocateWasteBuffer : DrainBufferValues]

DrainInit ==
    /\ \E config \in DrainStackConfig :
          /\ s = NewSliceStackWithConfig(config, <<>>)
          /\ slast = SCall("NewSliceStackWithConfig", Zero, NoError, FALSE, FALSE, s)
    /\ popped = <<>>
    /\ npushed = 0
    /\ peakcap = s.cap
    /\ QIdle
    /\ LIdle
    /\ PIdle
    /\ TIdle
    /\ AIdle

\* s.Push(value) while no Pop has been called
FillPush ==
    /\ slast.op # "Pop"
    /\ npushed < MaxFill
    /\ LET value == npushed + 1
       IN /\ s' = PushResult(s, value)
          /\ npushed' = npushed + 1
          /\ slast' = SCall("Push", Zero, NoError, FALSE, FALSE, s)
          /\ peakcap' = Max(peakcap, PushResult(s, value).cap)
    /\ UNCHANGED popped
    /\ UNCHANGED <<qvars, lvars, pvars, tvars, avars>>

\* s.Pop() while the stack holds a value
DrainPop == ~StackIsEmpty(s) /\ Pop

DrainNext == FillPush \/ DrainPop

DrainSpec == DrainInit /\ [][DrainNext]_vars

\* Compact and Reallocate called on their own: a slice of n elements and
\* capacity c with parameters of every kind, valid and invalid
IndexValues == -1..(MaxLen + 1)

\* thresholds passed to the policies: those of the configurations and one
\* that no quotient of two small lengths meets exactly
PolicyPercentValues == PercentValues \cup {67}

PolicyInit ==
    /\ \E n \in 0..MaxLen, c \in 0..MaxCap :
          /\ n <= c
          /\ \/ \E start \in IndexValues, minSize \in MinLengthValues,
                    wastePercent \in PolicyPercentValues :
                    call = [fn |-> "Compact", data |-> Values(n), cap |-> c,
                            p |-> SliceCompactionParams(start, minSize, wastePercent),
                            done |-> FALSE, r |-> <<>>]
             \/ \E start \in IndexValues, end \in IndexValues,
                    minSize \in MinLengthValues,
                    wastePercent \in PolicyPercentValues,
                    wasteBuffer \in BufferValues :
                    call = [fn |-> "Reallocate", data |-> Values(n), cap |-> c,
                            p |-> SliceReallocationParams(start, end, minSize,
                                                          wastePercent, wasteBuffer),
                            done |-> FALSE, r |-> <<>>]
    /\ QIdle
    /\ SIdle
    /\ LIdle
    /\ TIdle
    /\ AIdle

CallCompact ==
    /\ call.fn = "Compact"
    /\ ~call.done
    /\ call' = [call EXCEPT !.done = TRUE,
                            !.r = Compact(call.data, call.cap, call.p)]
    /\ UNCHANGED <<qvars, svars, lvars, tvars, avars>>

CallReallocate ==
    /\ call.fn = "Reallocate"
    /\ ~call.done
    /\ call' = [call EXCEPT !.done = TRUE,
                            !.r = Reallocate(call.data, call.cap, call.p)]
    /\ UNCHANGED <<qvars, svars, lvars, tvars, avars>>

PolicyNext == CallCompact \/ CallReallocate

PolicySpec == PolicyInit /\ [][PolicyNext]_vars

\* a run exercises one container: a SliceQueue or a SliceStack
ContainersInit ==
    /\ (QInit /\ SIdle) \/ (SInit /\ QIdle)
    /\ LIdle
    /\ PIdle
    /\ TIdle
    /\ AIdle

ContainersNext == Enqueue \/ Dequeue \/ Peek \/ Push \/ Pop \/ StackPeek

ContainersSpec == ContainersInit /\ [][ContainersNext]_vars

\* A LinkedList built from up to MaxListInit values and given any sequence
\* of calls.  The values are few, so that a list holds the same value more
\* than once; a call that allocates is made while the heap holds fewer
\* than MaxNodes nodes.
ListValues == {1, 2}

\* the values searched for: those the list may hold and one it never holds
SearchValues == ListValues \cup {3}

\* the nodes met from node by following Next, at most fuel of them
RECURSIVE NodesFrom(_, _, _)
NodesFrom(nodes, node, fuel) ==
    IF node = Nil \/ fuel = 0 THEN <<>>
    ELSE <<node>> \o NodesFrom(nodes, nodes[node].Next, fuel - 1)

\* Memory management: a node that neither head nor tail leads to is
\* collected, and the addresses of the others, which no method observes
\* beyond pointer equality, are renamed in the order head and then tail
\* reach them.
Collect(l) ==
    LET fromHead == NodesFrom(l.nodes, l.head, Len(l.nodes))
        fromTail == NodesFrom(l.nodes, l.tail, Len(l.nodes))
        inHead(n) == \E i \in 1..Len(fromHead) : fromHead[i] = n
        live == fromHead \o SelectSeq(fromTail, LAMBDA n : ~inHead(n))
        addr(n) == IF n = Nil \/ ~\E i \in 1..Len(live) : live[i] = n THEN Nil
                   ELSE CHOOSE i \in 1..Len(live) : live[i] = n
    IN [nodes |-> [i \in 1..Len(live) |->
                      LinkedListNode(l.nodes[live[i]].Value,
                                     addr(l.nodes[live[i]].Next))],
        head |-> addr(l.head), tail |-> addr(l.tail), size |-> l.size]

ListIndexValues(l) == -1..(l.size + 1)

\* the record of the last call on the list: its arguments (0 where it has
\* none), what it returned, and the list before it
TCall(op, index, value, newValue, r, pre) ==
    [op |-> op, index |-> index, value |-> value, newValue |-> newValue,
     val |-> r.val, err |-> r.err, ok |-> r.ok, pre |-> pre]

TInit ==
    \E n \in 0..MaxListInit : \E values \in [1..n -> ListValues] :
        /\ list = NewLinkedList(values)
        /\ llast = TCall("NewLinkedList", 0, 0, 0,
                         LResult(list, Zero, NoError, TRUE), list)

ListAddFirst ==
    /\ Len(list.nodes) < MaxNodes
    /\ \E value \in ListValues :
          /\ list' = Collect(AddFirst(list, value))
          /\ llast' = TCall("AddFirst", 0, value, 0,
                            LResult(list', Zero, NoError, TRUE), list)
    /\ UNCHANGED <<qvars, svars, lvars, pvars, avars>>

ListAddLast ==
    /\ Len(list.nodes) < MaxNodes
    /\ \E value \in ListValues :
          /\ list' = Collect(AddLast(list, value))
          /\ llast' = TCall("AddLast", 0, value, 0,
                            LResult(list', Zero, NoError, TRUE), list)
    /\ UNCHANGED <<qvars, svars, lvars, pvars, avars>>

ListRemoveFirst ==
    /\ list' = Collect(RemoveFirst(list))
    /\ llast' = TCall("RemoveFirst", 0, 0, 0,
                      LResult(list', Zero, NoError, list.head # Nil), list)
    /\ UNCHANGED <<qvars, svars, lvars, pvars, avars>>

ListRemoveLast ==
    /\ list' = Collect(RemoveLast(list))
    /\ llast' = TCall("RemoveLast", 0, 0, 0,
                      LResult(list', Zero, NoError, list.head # Nil), list)
    /\ UNCHANGED <<qvars, svars, lvars, pvars, avars>>

ListInsertAt ==
    /\ \E index \in ListIndexValues(list), value \in ListValues :
          LET r == InsertAt(list, index, value)
          IN /\ r.err = NoError => Len(list.nodes) < MaxNodes
             /\ list' = Collect(r.list)
             /\ llast' = TCall("InsertAt", index, value, 0, r, list)
    /\ UNCHANGED <<qvars, svars, lvars, pvars, avars>>

ListUpdateAt ==
    /\ \E index \in ListIndexValues(list), value \in ListValues :
          LET r == UpdateAt(list, index, value)
          IN /\ list' = Collect(r.list)
             /\ llast' = TCall("UpdateAt", index, value, 0, r, list)
    /\ UNCHANGED <<qvars, svars, lvars, pvars, avars>>

ListRemoveAt ==
    /\ \E index \in ListIndexValues(list) :
          LET r == RemoveAt(list, index)
          IN /\ list' = Collect(r.list)
             /\ llast' = TCall("RemoveAt", index, 0, 0, r, list)
    /\ UNCHANGED <<qvars, svars, lvars, pvars, avars>>

ListGetAt ==
    /\ \E index \in ListIndexValues(list) :
          LET r == GetAt(list, index)
          IN /\ list' = Collect(r.list)
             /\ llast' = TCall("GetAt", index, 0, 0, r, list)
    /\ UNCHANGED <<qvars, svars, lvars, pvars, avars>>

ListIndexOf ==
    /\ \E value \in SearchValues :
          /\ list' = list
          /\ llast' = TCall("IndexOf", 0, value, 0,
                            LResult(list, IndexOf(list, value), NoError, TRUE), list)
    /\ UNCHANGED <<qvars, svars, lvars, pvars, avars>>

ListContains ==
    /\ \E value \in SearchValues :
          /\ list' = list
          /\ llast' = TCall("Contains", 0, value, 0,
                            LResult(list, Zero, NoError, Contains(list, value)), list)
    /\ UNCHANGED <<qvars, svars, lvars, pvars, avars>>

ListRemove ==
    /\ \E value \in ListValues :
          LET r == Remove(list, value)
          IN /\ list' = Collect(r.list)
             /\ llast' = TCall("Remove", 0, value, 0, r, list)
    /\ UNCHANGED <<qvars, svars, lvars, pvars, avars>>

ListUpdate ==
    /\ \E oldValue \in ListValues, newValue \in ListValues :
          LET r == Update(list, oldValue, newValue)
          IN /\ list' = Collect(r.list)
             /\ llast' = TCall("Update", 0, oldValue, newValue, r, list)
    /\ UNCHANGED <<qvars, svars, lvars, pvars, avars>>

ListInit == TInit /\ QIdle /\ SIdle /\ LIdle /\ PIdle /\ AIdle

ListNext ==
    \/ ListAddFirst \/ ListAddLast \/ ListRemoveFirst \/ ListRemoveLast
    \/ ListInsertAt \/ ListUpdateAt \/ ListRemoveAt \/ ListGetAt
    \/ ListIndexOf \/ ListContains \/ ListRemove \/ ListUpdate

ListSpec == ListInit /\ [][ListNext]_vars

\* A StandardArray built from up to MaxArray values and given any sequence
\* of calls, with indices inside and outside the array
ArrayValues == {1, 2}

ArrayIndexValues == -1..(MaxArray + 1)

\* the record of the last call on the array: its arguments (0 where it has
\* none), what it returned, and the array before it
ACall(op, index, value, val, err, pre) ==
    [op |-> op, index |-> index, value |-> value, val |-> val, err |-> err,
     pre |-> pre]

AInit ==
    \E n \in 0..MaxArray : \E values \in [1..n -> ArrayValues] :
        /\ arr = NewStandardArray(values)
        /\ alast = ACall("NewStandardArray", 0, 0, Zero, NoError, arr)

ArrayGetAt ==
    /\ \E index \in ArrayIndexValues :
          LET r == StandardArrayGetAt(arr, index)
          IN /\ arr' = r.array
             /\ alast' = ACall("GetAt", index, 0, r.val, r.err, arr)
    /\ UNCHANGED <<qvars, svars, lvars, pvars, tvars>>

ArrayUpdateAt ==
    /\ \E index \in ArrayIndexValues, value \in ArrayValues :
          LET r == StandardArrayUpdateAt(arr, index, value)
          IN /\ arr' = r.array
             /\ alast' = ACall("UpdateAt", index, value, r.val, r.err, arr)
    /\ UNCHANGED <<qvars, svars, lvars, pvars, tvars>>

ArrayIsEmpty ==
    /\ arr' = arr
    /\ alast' = ACall("IsEmpty", 0, 0, StandardArrayIsEmpty(arr), NoError, arr)
    /\ UNCHANGED <<qvars, svars, lvars, pvars, tvars>>

ArraySize ==
    /\ arr' = arr
    /\ alast' = ACall("Size", 0, 0, StandardArraySize(arr), NoError, arr)
    /\ UNCHANGED <<qvars, svars, lvars, pvars, tvars>>

ArrayInit == AInit /\ QIdle /\ SIdle /\ LIdle /\ PIdle /\ TIdle

ArrayNext == ArrayGetAt \/ ArrayUpdateAt \/ ArrayIsEmpty \/ ArraySize

ArraySpec == ArrayInit /\ [][ArrayNext]_vars

(***************************************************************************)
(* Properties                                                              *)
(***************************************************************************)
Prefix(a, b) == Len(a) <= Len(b) /\ a = SubSeq(b, 1, Len(a))

PercentValid(p) == p >= 0 /\ p <= 100

ValidStackConfig(config) ==
    /\ config.MinOptimizationLength >= 0
    /\ PercentValid(config.ReallocateWastePercent)
    /\ config.ReallocateWasteBuffer >= 0
    /\ config.ReallocateWasteBuffer <= 99

\* a well-formed queue configuration: the thresholds the documentation allows
ValidQueueConfig(config) ==
    /\ config.MinOptimizationLength >= 0
    /\ PercentValid(config.CompactWastePercent)
    /\ PercentValid(config.ReallocateWastePercent)

\* the last call was an Enqueue that shifted the live window to index 0
EnqueueCompacted == qlast.op = "Enqueue" /\ qlast.pre.curr > 0 /\ q.curr = 0

\* the last call was a successful Dequeue
DequeueSucceeded == qlast.op = "Dequeue" /\ qlast.err = NoError

\* the last call was a successful Dequeue that replaced the buffer (curr is
\* at least 1 after a Dequeue that did not)
DequeueReallocated == DequeueSucceeded /\ q.curr = 0

\* C1: SliceQueue is strictly FIFO: under every configuration the values
\* returned by the successful Dequeue calls are, in order, a prefix of the
\* initial values followed by the enqueued values, and the values still
\* queued are the rest, in order.
C1_Fifo ==
    /\ Prefix(dequeued, enqueued)
    /\ Slice(q.data, q.curr, Len(q.data))
         = SubSeq(enqueued, Len(dequeued) + 1, Len(enqueued))
    /\ DequeueSucceeded => qlast.val = enqueued[Len(dequeued)]

\* a Dequeue reallocates after an earlier optimisation had already reset
\* curr, in a queue with both policies enabled, and returns a value that was
\* enqueued after construction
C1_Witness ==
    /\ DequeueReallocated
    /\ q.config.CompactOnEnqueue
    /\ qlast.pre.curr + 1 < Len(dequeued)
    /\ Len(q.data) > 0

\* C2: SliceStack is strictly LIFO for every valid configuration: each
\* successful Pop returns the most recently pushed value not yet popped
\* (values are numbered in push order, so it is the largest such value).
C2_Lifo ==
    (/\ slast.op = "Pop"
     /\ slast.err = NoError
     /\ ~slast.panicked
     /\ ValidStackConfig(s.config))
    => LET v == slast.val
           earlier == {popped[i] : i \in 1..(Len(popped) - 1)}
       IN /\ popped[Len(popped)] = v
          /\ v \in 1..npushed
          /\ v \notin earlier
          /\ \A w \in (1..npushed) \ earlier : w <= v

\* a Pop that reallocates returns a value below the newest one pushed, after
\* the stack had been emptied and refilled
C2_Witness ==
    /\ slast.op = "Pop"
    /\ slast.err = NoError
    /\ slast.optimized
    /\ ValidStackConfig(s.config)
    /\ Len(popped) >= 3
    /\ \E i \in 1..(Len(popped) - 1) : popped[i] < slast.val

\* C3: a Pop that aborts with a precondition violation leaves curr and the
\* buffer exactly as they were before the call.
C3_PopPanicLeavesStack ==
    (slast.op = "Pop" /\ slast.panicked) => s = slast.pre

\* the condition C4 gives for compaction, on the queue before the Enqueue
C4_Condition(qq) ==
    /\ qq.config.CompactOnEnqueue
    /\ Size(qq) >= qq.config.MinOptimizationLength
    /\ qq.curr > 0
    /\ 100 - (100 * Size(qq)) \div Len(qq.data) >= qq.config.CompactWastePercent

\* C4: Enqueue compacts exactly when CompactOnEnqueue is set, Size() >=
\* MinOptimizationLength, curr > 0 and 100 - 100*Size()/len(data) >=
\* CompactWastePercent.  Stated for well-formed configurations.
C4_CompactsExactlyWhen ==
    (qlast.op = "Enqueue" /\ ValidQueueConfig(q.config))
    => (EnqueueCompacted <=> C4_Condition(qlast.pre))

\* the condition C5 gives for reallocation, on the queue after q.curr++
C5_Condition(qq) ==
    /\ qq.config.ReallocateOnDequeue
    /\ qq.curr >= qq.config.MinOptimizationLength
    /\ 100 - (100 * Size(qq)) \div qq.cap >= qq.config.ReallocateWastePercent

\* C5: a successful Dequeue reallocates exactly when ReallocateOnDequeue is
\* set, curr >= MinOptimizationLength and 100 - 100*Size()/cap(data) >=
\* ReallocateWastePercent (waste equal to the threshold triggers).  Stated
\* for well-formed configurations.
C5_ReallocatesExactlyWhen ==
    (DequeueSucceeded /\ ValidQueueConfig(q.config))
    => (DequeueReallocated <=> C5_Condition(DequeueAdvance(qlast.pre)))

\* C6: MinOptimizationLength is a floor on the live count: with Size() <
\* MinOptimizationLength before the call an Enqueue never compacts and a
\* Dequeue never reallocates.  Stated for well-formed configurations.
C6_MinLengthIsFloorOnSize ==
    (/\ ValidQueueConfig(q.config)
     /\ Size(qlast.pre) < q.config.MinOptimizationLength)
    => ~EnqueueCompacted /\ ~DequeueReallocated

\* C7: NewSliceQueue builds a queue with both optimisations enabled and the
\* thresholds 100, 50, 75.
C7_DefaultConfiguration ==
    qlast.op = "NewSliceQueue" =>
        q.config = [CompactOnEnqueue |-> TRUE,
                    ReallocateOnDequeue |-> TRUE,
                    MinOptimizationLength |-> 100,
                    CompactWastePercent |-> 50,
                    ReallocateWastePercent |-> 75]

\* whether an Enqueue on qq would shift the live window if the queue had
\* been configured with CompactWastePercent = p
CompactsUnder(qq, p) ==
    /\ qq.curr > 0
    /\ EnqueueResult([qq EXCEPT !.config.CompactWastePercent = p], Zero).curr = 0

\* C8: lowering CompactWastePercent makes compaction more aggressive: an
\* Enqueue that compacts under a threshold p also compacts under every
\* lower threshold.  Stated for thresholds in [0,100] and
\* MinOptimizationLength >= 0.
C8_LowerThresholdCompactsMore ==
    q.config.MinOptimizationLength >= 0 =>
        \A p1, p2 \in {p \in PercentValues : PercentValid(p)} :
            (p2 < p1 /\ CompactsUnder(q, p1)) => CompactsUnder(q, p2)

\* the last call consulted an enabled policy of a malformed configuration
ConsultedMalformedPolicy ==
    \/ /\ qlast.op = "Enqueue"
       /\ q.config.CompactOnEnqueue
       /\ \/ q.config.MinOptimizationLength < 0
          \/ ~PercentValid(q.config.CompactWastePercent)
    \/ /\ DequeueSucceeded
       /\ q.config.ReallocateOnDequeue
       /\ \/ q.config.MinOptimizationLength < 0
          \/ ~PercentValid(q.config.ReallocateWastePercent)

\* C9: an Enqueue or Dequeue that consults an enabled policy with malformed
\* parameters signals a precondition violation instead of completing.
C9_MalformedConfigSurfaced == ConsultedMalformedPolicy => qlast.panicked

\* C10: on an empty queue Dequeue and Peek return the zero value and the
\* error "queue is empty" and change nothing; on a non-empty queue neither
\* returns an error.
C10_EmptyQueueError ==
    qlast.op \in {"Dequeue", "Peek"} =>
        IF Len(qlast.pre.data) - qlast.pre.curr = 0
        THEN /\ qlast.val = 0
             /\ qlast.err = "queue is empty"
             /\ q = qlast.pre
        ELSE qlast.err = ""

\* Dequeue fails on a queue that was filled and drained (curr > 0), and
\* Peek fails on it too
C10_Witness ==
    /\ qlast.op = "Dequeue"
    /\ qlast.err = ErrorEmptyQueue
    /\ q.curr > 0
    /\ q.curr = Len(q.data)

\* C11: on an empty stack (curr == 0) Pop and Peek return the zero value and
\* the error "stack is empty" and leave curr and the buffer as they were, for
\* every configuration, invalid ones included; on a non-empty stack Peek
\* returns data[curr-1] without error.
C11_EmptyStackError ==
    /\ (slast.op \in {"Pop", "Peek"} /\ slast.pre.curr = 0)
       => /\ slast.val = 0
          /\ slast.err = "stack is empty"
          /\ ~slast.panicked
          /\ s = slast.pre
    /\ (slast.op = "Peek" /\ slast.pre.curr > 0)
       => /\ slast.val = slast.pre.data[slast.pre.curr]
          /\ slast.err = ""
          /\ ~slast.panicked

\* Pop fails on a stack with an invalid configuration that was filled and
\* drained
C11_Witness ==
    /\ slast.op = "Pop"
    /\ slast.err = ErrorEmptyStack
    /\ ~ValidStackConfig(s.config)
    /\ s.config.ReallocateOnPop
    /\ npushed >= 2

\* Peek succeeds on a stack whose buffer holds stale slots above curr
C11_PeekWitness ==
    /\ slast.op = "Peek"
    /\ slast.err = NoError
    /\ s.curr < Len(s.data)

\* C12: size accounting is exact under every configuration: Size() is
\* len(data) - curr and equals the number of initial values plus Enqueue
\* calls minus successful Dequeue calls; an Enqueue raises it by exactly 1
\* and a successful Dequeue lowers it by exactly 1, optimisation or not;
\* IsEmpty() holds iff Size() is 0.
C12_SizeAccounting ==
    /\ Size(q) = Len(q.data) - q.curr
    /\ Size(q) = Len(enqueued) - Len(dequeued)
    /\ qlast.op = "Enqueue" => Size(q) = Size(qlast.pre) + 1
    /\ DequeueSucceeded => Size(q) = Size(qlast.pre) - 1
    /\ IsEmpty(q) <=> Len(enqueued) = Len(dequeued)

\* a Dequeue that reallocates empties a queue after as many successful
\* Dequeue calls as values entered it, some of them by Enqueue
C12_Witness ==
    /\ DequeueSucceeded
    /\ qlast.optimized
    /\ IsEmpty(q)
    /\ Len(dequeued) >= 4
    /\ Len(qlast.pre.data) < Len(enqueued)

\* C13: Peek is a pure observation: it leaves curr, the buffer, its length
\* and capacity and Size() as they were, and on a non-empty queue it returns
\* the value the next Dequeue returns (the oldest value not yet dequeued).
C13_PeekIsPure ==
    qlast.op = "Peek" =>
        /\ q = qlast.pre
        /\ ~IsEmpty(q) => /\ qlast.err = NoError
                          /\ qlast.val = DequeueValue(q)
                          /\ qlast.val = enqueued[Len(dequeued) + 1]

\* Peek on a queue with dequeued slots still in front of the live window
C13_Witness ==
    /\ qlast.op = "Peek"
    /\ qlast.err = NoError
    /\ q.curr > 0
    /\ Size(q) >= 2

\* C14: SliceQueue and LinkedListQueue are observationally equivalent:
\* built from the same values and given the same sequence of Enqueue,
\* Dequeue, Peek, Size and IsEmpty calls, each call returns the same value
\* and the same error on both, for every SliceQueueConfig.
C14_QueuesEquivalent ==
    qlast.op \in {"Enqueue", "Dequeue", "Peek", "Size", "IsEmpty"} =>
        /\ lqlast.op = qlast.op
        /\ lqlast.val = qlast.val
        /\ lqlast.err = qlast.err

\* both queues return the same value from a Dequeue on which the SliceQueue
\* replaced its buffer, after values were enqueued and with values left
C14_Witness ==
    /\ DequeueReallocated
    /\ lqlast.op = "Dequeue"
    /\ lqlast.val = qlast.val
    /\ qlast.val > MaxInit
    /\ Len(dequeued) >= 3
    /\ ListSize(lq.data) >= 1

\* C15: compaction prevents unbounded growth of the buffer: with
\* CompactOnEnqueue set, CompactWastePercent = 50 and MinOptimizationLength
\* = m >= 0 (ReallocateOnDequeue either way), while Size() has never
\* exceeded K, len(data) does not exceed K + max(K, m).  maxsize is the
\* least such K of the run so far.
C15_CompactionBoundsLength ==
    (/\ q.config.CompactOnEnqueue
     /\ q.config.CompactWastePercent = 50
     /\ q.config.MinOptimizationLength >= 0)
    => Len(q.data) <= maxsize + Max(maxsize, q.config.MinOptimizationLength)

\* an Enqueue compacts in a run that put MaxValues values through a queue
\* that never held more than two
C15_Witness ==
    /\ EnqueueCompacted
    /\ q.config.CompactWastePercent = 50
    /\ q.config.MinOptimizationLength >= 0
    /\ Len(enqueued) = MaxValues
    /\ maxsize <= 2

\* C16: an Enqueue that compacts does not change the capacity: for every
\* configuration with CompactWastePercent in [0,100], cap(data) after the
\* call (compaction and append) is cap(data) before it.
C16_CompactionKeepsCapacity ==
    (/\ qlast.op = "Enqueue"
     /\ qlast.optimized \/ EnqueueCompacted
     /\ PercentValid(q.config.CompactWastePercent))
    => q.cap = qlast.pre.cap

\* an Enqueue compacts a buffer that was full, where an append without the
\* compaction would have grown it
C16_Witness ==
    /\ EnqueueCompacted
    /\ qlast.optimized
    /\ PercentValid(q.config.CompactWastePercent)
    /\ Len(qlast.pre.data) = qlast.pre.cap
    /\ q.cap = qlast.pre.cap
    /\ q.cap >= 4

\* C17: reallocation on Dequeue shrinks the buffer: a Dequeue that
\* reallocates leaves cap(data) strictly smaller than before it, for every
\* configuration with ReallocateWastePercent in [0,100] and
\* MinOptimizationLength >= 0.
C17_ReallocationShrinks ==
    (/\ DequeueSucceeded
     /\ qlast.optimized
     /\ PercentValid(q.config.ReallocateWastePercent)
     /\ q.config.MinOptimizationLength >= 0)
    => q.cap < qlast.pre.cap

\* C18: each policy is switched off by its flag alone, whatever the other
\* fields hold: with CompactOnEnqueue = false no Enqueue changes curr or
\* moves an existing element; with ReallocateOnDequeue = false no Dequeue
\* changes len(data) or cap(data) or resets curr; with ReallocateOnPop =
\* false no Pop changes cap(data) and no Pop panics.
C18_FlagsDisablePolicies ==
    /\ (QueueBuilt /\ qlast.op = "Enqueue" /\ ~q.config.CompactOnEnqueue)
       => /\ q.curr = qlast.pre.curr
          /\ SubSeq(q.data, 1, Len(qlast.pre.data)) = qlast.pre.data
    /\ (QueueBuilt /\ qlast.op = "Dequeue" /\ ~q.config.ReallocateOnDequeue)
       => /\ q.data = qlast.pre.data
          /\ q.cap = qlast.pre.cap
          /\ q.curr >= qlast.pre.curr
          /\ DequeueSucceeded => q.curr = qlast.pre.curr + 1
    /\ (StackBuilt /\ slast.op = "Pop" /\ ~s.config.ReallocateOnPop)
       => /\ s.cap = slast.pre.cap
          /\ ~slast.panicked

\* a Dequeue with ReallocateOnDequeue = false leaves a queue whose waste is
\* past the threshold and whose curr is past MinOptimizationLength
C18_Witness ==
    /\ QueueBuilt
    /\ DequeueSucceeded
    /\ ~q.config.ReallocateOnDequeue
    /\ q.curr >= q.config.MinOptimizationLength
    /\ 100 * Size(q) < (100 - q.config.ReallocateWastePercent) * q.cap
    /\ PercentValid(q.config.ReallocateWastePercent)
    /\ Size(q) >= 1

\* a Pop with ReallocateOnPop = false and an out-of-range buffer setting
\* leaves a stack that uses a quarter of its capacity or less
C18_PopWitness ==
    /\ StackBuilt
    /\ slast.op = "Pop"
    /\ slast.err = NoError
    /\ ~s.config.ReallocateOnPop
    /\ s.config.ReallocateWasteBuffer > 99
    /\ s.curr >= 1
    /\ 4 * s.curr <= s.cap

\* the last call was the Pop that emptied a stack filled from empty, under a
\* configuration with ReallocateOnPop set, ReallocateWastePercent in [1,50]
\* and ReallocateWasteBuffer in [0,99], and the pushes had taken the
\* capacity above 10
Drained ==
    /\ slast.op = "Pop"
    /\ s.curr = 0
    /\ s.config.ReallocateOnPop
    /\ s.config.ReallocateWastePercent >= 1
    /\ s.config.ReallocateWastePercent <= 50
    /\ s.config.ReallocateWasteBuffer >= 0
    /\ s.config.ReallocateWasteBuffer <= 99
    /\ peakcap > 10

\* C19: draining a SliceStack reclaims memory: with ReallocateOnPop set,
\* MinOptimizationLength <= 1, ReallocateWastePercent in [1,50] and
\* ReallocateWasteBuffer in [0,99], pushing n values on an empty stack and
\* popping all n leaves cap(data) strictly below the peak capacity of the
\* pushes, whenever that peak exceeds 10.
C19_DrainReclaims ==
    (Drained /\ s.config.MinOptimizationLength <= 1) => s.cap < peakcap

\* the same for MinOptimizationLength 0 or 1, where no Pop panics: every
\* value pushed is returned and the capacity is reclaimed
DrainReclaimsValidMinLength ==
    (/\ Drained
     /\ s.config.MinOptimizationLength >= 0
     /\ s.config.MinOptimizationLength <= 1)
    => Len(popped) = npushed /\ s.cap < peakcap

\* a stack filled past capacity 16 has been drained under a configuration
\* with MinOptimizationLength = 1 and the highest threshold
DrainedValidMinLength ==
    /\ Drained
    /\ s.config.MinOptimizationLength = 1
    /\ s.config.ReallocateWastePercent = 50
    /\ npushed = MaxFill
    /\ peakcap > 16
    /\ Len(popped) = npushed
    /\ s.cap < peakcap

\* C20: reallocation does not oscillate: for every valid SliceStackConfig,
\* when a Pop reallocates, the Pop called immediately after it does not
\* reallocate again if it leaves the stack non-empty.
C20_NoImmediateRetrigger ==
    [][(/\ slast.op = "Pop"
        /\ slast.optimized
        /\ ValidStackConfig(s.config)
        /\ slast'.op = "Pop"
        /\ s'.curr > 0)
       => ~slast'.optimized]_vars

\* the last call was Compact (resp. Reallocate) and has returned or panicked
Compacted == call.fn = "Compact" /\ call.done

Reallocated == call.fn = "Reallocate" /\ call.done

\* C21: whenever Reallocate triggers, for any valid parameters and any
\* buffer, the capacity of the buffer it returns is strictly smaller than
\* the capacity of the input buffer.
C21_ReallocateShrinks ==
    (Reallocated /\ call.r.triggered) => call.r.cap < call.cap

\* the parameters C27 calls invalid for Compact on a slice of that length
CompactInvalid(p, length) ==
    \/ p.UsedStart < 0
    \/ length > 0 /\ p.UsedStart >= length
    \/ length = 0 /\ p.UsedStart # 0
    \/ p.MinSize < 0
    \/ p.WastePercent < 0
    \/ p.WastePercent > 100

\* the parameters C28 calls invalid for Reallocate on a slice of that length
ReallocateInvalid(p, length) ==
    \/ p.UsedStart < 0
    \/ p.UsedEnd < 0
    \/ length > 0 /\ (p.UsedStart >= p.UsedEnd \/ p.UsedEnd > length)
    \/ length = 0 /\ (p.UsedStart # 0 \/ p.UsedEnd # 0)
    \/ p.MinSize < 0
    \/ p.WastePercent < 0
    \/ p.WastePercent > 100
    \/ p.WasteBuffer < 0
    \/ p.WasteBuffer > 99

\* Compact was called with valid parameters on a non-empty slice
CompactedValid ==
    Compacted /\ ~CompactInvalid(call.p, Len(call.data)) /\ Len(call.data) > 0

\* Reallocate was called with valid parameters on a non-empty slice
ReallocatedValid ==
    Reallocated /\ ~ReallocateInvalid(call.p, Len(call.data)) /\ Len(call.data) > 0

\* Compact returned the live window shifted to index 0
CompactShifted ==
    /\ call.p.UsedStart > 0
    /\ call.r.start = 0
    /\ Len(call.r.data) = Len(call.data) - call.p.UsedStart

\* the trigger condition C22 gives for Compact
C22_Condition ==
    LET used == Len(call.data) - call.p.UsedStart
    IN /\ used >= call.p.MinSize
       /\ 100 - (100 * used) \div Len(call.data) >= call.p.WastePercent
       /\ call.p.UsedStart > 0

\* C22: for valid parameters and a non-empty buffer Compact shifts the live
\* window iff used = length - UsedStart >= MinSize, 100 - 100*used/length >=
\* WastePercent and UsedStart > 0 (waste equal to the threshold triggers,
\* UsedStart = 0 never does).
C22_CompactTriggersExactlyWhen ==
    CompactedValid =>
        /\ ~call.r.panicked
        /\ CompactShifted <=> C22_Condition
        /\ call.r.triggered <=> C22_Condition

\* Compact shifts with waste exactly at the threshold and used exactly at
\* MinSize
C22_Witness ==
    /\ CompactedValid
    /\ CompactShifted
    /\ call.p.MinSize = Len(call.data) - call.p.UsedStart
    /\ 100 - (100 * call.p.MinSize) \div Len(call.data) = call.p.WastePercent

\* C23: when Compact triggers the returned slice has length used, its
\* element i is the input's element UsedStart + i (order kept although the
\* ranges overlap), the returned start is 0, and the slice shares the
\* input's backing buffer, capacity unchanged.
C23_CompactResult ==
    (Compacted /\ call.r.triggered) =>
        LET used == Len(call.data) - call.p.UsedStart
        IN /\ Len(call.r.data) = used
           /\ \A i \in 0..(used - 1) :
                 At(call.r.data, i) = At(call.data, call.p.UsedStart + i)
           /\ call.r.start = 0
           /\ ~call.r.fresh
           /\ call.r.data = Slice(call.r.array, 0, used)
           /\ call.r.cap = call.cap

\* Compact shifts a window longer than the gap in front of it: source and
\* destination ranges overlap
C23_Witness ==
    /\ Compacted
    /\ call.r.triggered
    /\ call.p.UsedStart >= 2
    /\ Len(call.r.data) > call.p.UsedStart

\* the trigger condition C24 gives for Reallocate
C24_Condition ==
    LET used == call.p.UsedEnd - call.p.UsedStart
    IN /\ used >= call.p.MinSize
       /\ 100 - (100 * used) \div call.cap >= call.p.WastePercent

\* C24: for valid parameters and a non-empty buffer Reallocate replaces the
\* buffer iff used = UsedEnd - UsedStart >= MinSize and 100 -
\* 100*used/cap(data) >= WastePercent, also when UsedStart = 0.
C24_ReallocateTriggersExactlyWhen ==
    ReallocatedValid =>
        /\ ~call.r.panicked
        /\ call.r.fresh <=> C24_Condition
        /\ call.r.triggered <=> C24_Condition

\* Reallocate replaces a slice that is full by length but not by capacity,
\* with UsedStart = 0 and waste exactly at the threshold
C24_Witness ==
    /\ ReallocatedValid
    /\ call.r.fresh
    /\ call.p.UsedStart = 0
    /\ call.p.UsedEnd = Len(call.data)
    /\ call.p.WastePercent > 0
    /\ 100 - (100 * Len(call.data)) \div call.cap = call.p.WastePercent

\* C25: when Reallocate triggers it returns a fresh buffer of capacity
\* exactly max(used*100 / (100 - WastePercent*WasteBuffer/100), 10), of
\* length used, holding the input's elements [UsedStart, UsedEnd) in order,
\* with start = 0 and end = used.
C25_ReallocateResult ==
    (Reallocated /\ call.r.triggered) =>
        LET used == call.p.UsedEnd - call.p.UsedStart
            target == (used * 100)
                        \div (100 - (call.p.WastePercent * call.p.WasteBuffer) \div 100)
        IN /\ call.r.fresh
           /\ call.r.cap = IF target < 10 THEN 10 ELSE target
           /\ Len(call.r.data) = used
           /\ \A i \in 0..(used - 1) :
                 At(call.r.data, i) = At(call.data, call.p.UsedStart + i)
           /\ call.r.start = 0
           /\ call.r.end = used
           /\ call.r.array = call.data

\* Reallocate makes a buffer at the floor of 10 for a window in the middle
\* of the slice
C25_Witness ==
    /\ Reallocated
    /\ call.r.triggered
    /\ call.r.cap = 10
    /\ call.p.UsedStart > 0
    /\ call.p.UsedEnd < Len(call.data)
    /\ call.p.UsedEnd - call.p.UsedStart >= 2

\* Reallocate makes a buffer above the floor of 10
C25_AboveFloorWitness ==
    /\ Reallocated
    /\ call.r.triggered
    /\ call.r.cap > 10

\* C26: a policy call that does not trigger is a no-op: for valid
\* parameters, when the trigger condition of Compact (resp. Reallocate) is
\* false or the buffer is empty, the returned buffer is the input buffer with
\* the same contents, length and capacity, and the returned start (and end)
\* are the input UsedStart (and UsedEnd).
C26_NoTriggerIsNoOp ==
    /\ (/\ Compacted
        /\ ~CompactInvalid(call.p, Len(call.data))
        /\ Len(call.data) = 0 \/ ~C22_Condition)
       => /\ ~call.r.fresh
          /\ call.r.data = call.data
          /\ call.r.array = call.data
          /\ call.r.cap = call.cap
          /\ call.r.start = call.p.UsedStart
    /\ (/\ Reallocated
        /\ ~ReallocateInvalid(call.p, Len(call.data))
        /\ Len(call.data) = 0 \/ ~C24_Condition)
       => /\ ~call.r.fresh
          /\ call.r.data = call.data
          /\ call.r.array = call.data
          /\ call.r.cap = call.cap
          /\ call.r.start = call.p.UsedStart
          /\ call.r.end = call.p.UsedEnd

\* Compact returns its input although the waste is past the threshold and
\* UsedStart > 0: the window is smaller than MinSize
C26_Witness ==
    /\ CompactedValid
    /\ ~C22_Condition
    /\ call.p.UsedStart > 0
    /\ Len(call.data) - call.p.UsedStart < call.p.MinSize
    /\ call.r.data = call.data

\* C27: Compact panics, before it moves any element, exactly when its
\* parameters are invalid: UsedStart < 0, or length > 0 and UsedStart >=
\* length, or length = 0 and UsedStart # 0, or MinSize < 0, or WastePercent
\* outside [0,100].
C27_CompactPanicsExactlyWhen ==
    Compacted =>
        /\ call.r.panicked <=> CompactInvalid(call.p, Len(call.data))
        /\ call.r.panicked => call.r.array = call.data

\* Compact panics on a WastePercent above 100 with everything else in range
\* and an offset that would otherwise be shifted
C27_Witness ==
    /\ Compacted
    /\ call.r.panicked
    /\ call.p.WastePercent > 100
    /\ call.p.MinSize >= 0
    /\ call.p.UsedStart > 0
    /\ call.p.UsedStart < Len(call.data)

C28_EmptyWindowWitness ==
    /\ Reallocated
    /\ call.r.panicked
    /\ Len(call.data) > 0
    /\ call.p.UsedStart = call.p.UsedEnd
    /\ call.p.UsedStart >= 0
    /\ call.p.UsedEnd <= Len(call.data)
    /\ call.p.MinSize >= 0
    /\ PercentValid(call.p.WastePercent)
    /\ call.p.WasteBuffer >= 0
    /\ call.p.WasteBuffer <= 99

\* C29: 0 <= curr <= len(data) <= cap(data) holds in every reachable state
\* of a SliceQueue under any configuration and of a SliceStack under any
\* valid configuration, whatever was compacted, reallocated or reset; so an
\* empty buffer has curr = 0.
C29_DataModelInvariant ==
    /\ QueueBuilt
       => /\ 0 <= q.curr
          /\ q.curr <= Len(q.data)
          /\ Len(q.data) <= q.cap
          /\ Len(q.data) = 0 => q.curr = 0
    /\ (StackBuilt /\ ValidStackConfig(s.config))
       => /\ 0 <= s.curr
          /\ s.curr <= Len(s.data)
          /\ Len(s.data) <= s.cap
          /\ Len(s.data) = 0 => s.curr = 0

\* a Dequeue has replaced the buffer of a queue that had compacted before
\* and still holds values
C29_Witness ==
    /\ QueueBuilt
    /\ DequeueReallocated
    /\ qlast.optimized
    /\ q.config.CompactOnEnqueue
    /\ qlast.pre.curr + 1 < Len(dequeued)
    /\ Len(q.data) >= 2
    /\ Len(q.data) < q.cap

\* a Pop has replaced the buffer of a stack with a valid configuration
C29_StackWitness ==
    /\ StackBuilt
    /\ ValidStackConfig(s.config)
    /\ slast.op = "Pop"
    /\ slast.optimized
    /\ s.curr >= 2

\* C30: a Pop that removes the last element truncates the buffer to length
\* 0, keeps cap(data) and does not call the reallocation policy, also with
\* ReallocateOnPop set and the waste threshold met; a Push that follows
\* stores its value at index 0.
C30_LastPopResets ==
    /\ (slast.op = "Pop" /\ slast.pre.curr = 1)
       => /\ slast.err = NoError
          /\ slast.val = At(slast.pre.data, 0)
          /\ Len(s.data) = 0
          /\ s.curr = 0
          /\ s.cap = slast.pre.cap
          /\ ~slast.optimized
          /\ ~slast.panicked
    /\ (slast.op = "Push" /\ slast.pre.curr = 0)
       => /\ At(s.data, 0) = npushed
          /\ s.curr = 1

\* a Pop empties a stack that reallocates on Pop, at any size and any
\* waste, and whose capacity is at least 4
C30_Witness ==
    /\ slast.op = "Pop"
    /\ slast.pre.curr = 1
    /\ s.config.ReallocateOnPop
    /\ ValidStackConfig(s.config)
    /\ s.config.MinOptimizationLength = 0
    /\ s.config.ReallocateWastePercent = 0
    /\ s.cap >= 4

\* a Push on a stack that a Pop had emptied
C30_PushWitness ==
    /\ slast.op = "Push"
    /\ slast.pre.curr = 0
    /\ slast.pre.cap > 0
    /\ Len(popped) > 0

\* C31: Push appends exactly when curr == len(data); otherwise it overwrites
\* slot curr and leaves len(data) and cap(data) as they were; either way
\* curr grows by exactly 1, the elements below the old curr are unchanged
\* and the pushed value is what Peek returns next.
C31_PushAppendsOrOverwrites ==
    slast.op = "Push" =>
        LET pre == slast.pre
        IN /\ (Len(s.data) = Len(pre.data) + 1) <=> (pre.curr = Len(pre.data))
           /\ pre.curr # Len(pre.data)
              => /\ Len(s.data) = Len(pre.data)
                 /\ s.cap = pre.cap
                 /\ \A i \in 0..(Len(pre.data) - 1) :
                       i # pre.curr => At(s.data, i) = At(pre.data, i)
           /\ s.curr = pre.curr + 1
           /\ At(s.data, pre.curr) = npushed
           /\ \A i \in 0..(pre.curr - 1) : At(s.data, i) = At(pre.data, i)
           /\ ~StackIsEmpty(s)
           /\ StackPeekValue(s) = npushed

\* a Push reuses a slot freed by a Pop, below other stale slots and above
\* live elements
C31_Witness ==
    /\ slast.op = "Push"
    /\ slast.pre.curr >= 1
    /\ slast.pre.curr + 1 < Len(slast.pre.data)
    /\ Len(s.data) = Len(slast.pre.data)

\* C32: both policies compute the waste with truncating integer division,
\* w = 100 - floor(100*live/denominator) (the length for Compact, the
\* capacity for Reallocate), so exact <= w < exact + 1 for the exact waste
\* 100*(1 - live/denominator): a policy triggers whenever the exact waste
\* reaches the threshold (and its other conditions hold), and triggers
\* below the threshold only when the exact waste is less than one point
\* under it.  The comparisons are multiplied through by the denominator.
C32_WasteTruncation ==
    /\ CompactedValid =>
          LET den == Len(call.data)
              live == den - call.p.UsedStart
              w == CompactWastePercent(live, den)
          IN /\ 100 * (den - live) <= w * den
             /\ w * den < 100 * (den - live) + den
             /\ ( /\ 100 * (den - live) >= call.p.WastePercent * den
                  /\ live >= call.p.MinSize
                  /\ call.p.UsedStart > 0 ) => call.r.triggered
             /\ call.r.triggered
                   => 100 * (den - live) + den > call.p.WastePercent * den
    /\ ReallocatedValid =>
          LET den == call.cap
              live == call.p.UsedEnd - call.p.UsedStart
              w == ReallocateWastePercent(live, den)
          IN /\ 100 * (den - live) <= w * den
             /\ w * den < 100 * (den - live) + den
             /\ ( /\ 100 * (den - live) >= call.p.WastePercent * den
                  /\ live >= call.p.MinSize ) => call.r.triggered
             /\ call.r.triggered
                   => 100 * (den - live) + den > call.p.WastePercent * den

\* Reallocate triggers although the exact waste is under the threshold
C32_Witness ==
    /\ ReallocatedValid
    /\ call.r.triggered
    /\ 100 * (call.cap - (call.p.UsedEnd - call.p.UsedStart))
          < call.p.WastePercent * call.cap

\* Compact triggers although the exact waste is under the threshold
C32_CompactWitness ==
    /\ CompactedValid
    /\ call.r.triggered
    /\ 100 * call.p.UsedStart < call.p.WastePercent * Len(call.data)

\* C34: for every parameter set that passes validation Reallocate's
\* arithmetic is safe: cap(data) >= 1 whenever the waste division is
\* evaluated, the divisor 100 - WastePercent*WasteBuffer/100 is at least 1,
\* and the target capacity is never smaller than the live count, so the
\* copy never grows the new buffer beyond the target capacity.
C34_ReallocateArithmeticSafe ==
    (Reallocated /\ ~call.r.panicked /\ Len(call.data) > 0) =>
        LET used == call.p.UsedEnd - call.p.UsedStart
            divisor == 100 - (call.p.WastePercent * call.p.WasteBuffer) \div 100
        IN /\ call.cap >= 1
           /\ divisor >= 1
           /\ (used * 100) \div divisor >= used
           /\ call.r.triggered
                 => /\ call.r.cap = Max((used * 100) \div divisor, 10)
                    /\ Len(call.r.data) = used
                    /\ used <= call.r.cap

\* Reallocate triggers with a target percentage of 60: the divisor is 40
C34_Witness ==
    /\ Reallocated
    /\ ~call.r.panicked
    /\ call.r.triggered
    /\ (call.p.WastePercent * call.p.WasteBuffer) \div 100 >= 60

\* C33: with a valid SliceStackConfig (MinOptimizationLength >= 0,
\* ReallocateWastePercent in 0..100, ReallocateWasteBuffer in 0..99) no
\* sequence of Push, Pop and Peek panics: the indices Push, Pop and Peek
\* use are inside the buffer, and every call Pop makes to Reallocate passes
\* a window with 0 = UsedStart < UsedEnd = curr <= len(data).
C33_ValidConfigNeverPanics ==
    ( /\ StackBuilt
      /\ s.config.MinOptimizationLength >= 0
      /\ s.config.ReallocateWastePercent \in 0..100
      /\ s.config.ReallocateWasteBuffer \in 0..99 )
    => /\ ~slast.panicked
       /\ 0 <= s.curr
       /\ s.curr <= Len(s.data)
       /\ ( /\ slast.op = "Pop"
            /\ slast.err = NoError
            /\ slast.pre.config.ReallocateOnPop
            /\ slast.pre.curr - 1 # 0 )
          => /\ 0 < slast.pre.curr - 1
             /\ slast.pre.curr - 1 <= Len(slast.pre.data)

\* a Pop of a stack with a valid configuration called Reallocate, which
\* replaced the buffer
C33_Witness ==
    /\ StackBuilt
    /\ s.config.MinOptimizationLength >= 0
    /\ s.config.ReallocateWastePercent \in 0..100
    /\ s.config.ReallocateWasteBuffer \in 0..99
    /\ slast.op = "Pop"
    /\ slast.pre.config.ReallocateOnPop
    /\ slast.pre.curr >= 2
    /\ slast.optimized

\* C35: a Dequeue that triggers reallocation leaves curr = 0, len(data) =
\* Size() = the number of remaining elements, cap(data) = max(2*Size(), 10)
\* and the remaining elements in their order at [0, Size()); this holds
\* too when the Dequeue removed the last element (the call succeeds and
\* the capacity is 10).
C35_DequeueReallocationResult ==
    (qlast.op = "Dequeue" /\ qlast.optimized) =>
        LET pre == qlast.pre
            remaining == Len(pre.data) - pre.curr - 1
        IN /\ qlast.err = NoError
           /\ qlast.val = At(pre.data, pre.curr)
           /\ q.curr = 0
           /\ Len(q.data) = remaining
           /\ Len(q.data) - q.curr = remaining
           /\ q.cap = IF 2 * remaining >= 10 THEN 2 * remaining ELSE 10
           /\ \A i \in 0..(remaining - 1) :
                 At(q.data, i) = At(pre.data, pre.curr + 1 + i)
           /\ remaining = 0 => q.cap = 10

\* a Dequeue of the last element reallocates
C35_Witness ==
    /\ qlast.op = "Dequeue"
    /\ qlast.optimized
    /\ qlast.err = NoError
    /\ Len(q.data) = 0
    /\ q.cap = 10

\* a Dequeue reallocates a queue of six or more remaining elements: the
\* capacity is twice the size
C35_DoubleWitness ==
    /\ qlast.op = "Dequeue"
    /\ qlast.optimized
    /\ Len(q.data) >= 6

\* C36: no SliceQueue operation panics, whatever the configuration
\* (negative and out-of-range values included) and whatever the sequence
\* of calls: the index Dequeue and Peek read is inside the slice, the
\* bounds of the reslices of Enqueue and Dequeue are in range, and the
\* capacity Dequeue requests is not negative.
C36_QueueNeverPanics ==
    QueueBuilt =>
        LET size == Len(q.data) - q.curr
        IN /\ ~qlast.panicked
           /\ size # 0 => (0 <= q.curr /\ q.curr < Len(q.data))
           /\ 0 <= q.curr
           /\ q.curr <= Len(q.data)
           /\ 0 <= Len(q.data) - q.curr
           /\ Len(q.data) - q.curr <= q.cap
           /\ size # 0 => (q.curr + 1 <= Len(q.data))
           /\ size # 0 => (IF 2 * (size - 1) >= 10 THEN 2 * (size - 1) ELSE 10) >= 0

\* a queue whose configuration is out of range has compacted or
\* reallocated
C36_Witness ==
    /\ QueueBuilt
    /\ \/ q.config.MinOptimizationLength < 0
       \/ q.config.CompactWastePercent > 100
       \/ q.config.ReallocateWastePercent < 0
    /\ qlast.optimized \/ (qlast.op = "Enqueue" /\ qlast.pre.curr > 0 /\ q.curr = 0)
    /\ q.curr = 0
    /\ Len(dequeued) >= 1

\* the values met by traversing l from head, in order (one node more than
\* the heap holds is enough to tell a cycle)
Contents(l) ==
    LET c == NodesFrom(l.nodes, l.head, Len(l.nodes) + 1)
    IN [k \in 1..Len(c) |-> l.nodes[c[k]].Value]

\* the index of the first occurrence of v in a sequence, -1 when there is none
FirstOccurrence(seq, v) ==
    IF \E k \in 1..Len(seq) : seq[k] = v
    THEN (CHOOSE k \in 1..Len(seq) :
              seq[k] = v /\ \A j \in 1..(k - 1) : seq[j] # v) - 1
    ELSE -1

\* a sequence with v put before index i, and with index i taken out
InsertedBefore(seq, i, v) ==
    SubSeq(seq, 1, i) \o <<v>> \o SubSeq(seq, i + 1, Len(seq))

Deleted(seq, i) == SubSeq(seq, 1, i) \o SubSeq(seq, i + 2, Len(seq))

\* C37: after every sequence of AddFirst, AddLast, RemoveFirst, RemoveLast,
\* InsertAt, UpdateAt, RemoveAt, Remove and Update the list keeps its
\* structural invariant: size is the number of nodes reachable from head;
\* head == nil iff tail == nil iff size == 0; when the list is not empty,
\* tail is the last node reachable from head and tail.Next == nil.
C37_StructuralInvariant ==
    llast.op # "idle" =>
        LET c == NodesFrom(list.nodes, list.head, Len(list.nodes) + 1)
        IN /\ Len(c) <= Len(list.nodes)
           /\ list.size = Len(c)
           /\ (list.head = Nil) <=> (list.tail = Nil)
           /\ (list.tail = Nil) <=> (list.size = 0)
           /\ list.size # 0
                 => /\ Len(c) > 0
                    /\ list.tail # Nil
                    /\ c[Len(c)] = list.tail
                    /\ list.nodes[list.tail].Next = Nil

\* RemoveAt took the last of three or more elements
C37_Witness ==
    /\ llast.op = "RemoveAt"
    /\ llast.err = NoError
    /\ llast.index = llast.pre.size - 1
    /\ llast.index >= 2

\* Remove took the last of three or more elements
C37_RemoveWitness ==
    /\ llast.op = "Remove"
    /\ llast.ok
    /\ llast.pre.size >= 3
    /\ FirstOccurrence(Contents(llast.pre), llast.value) = llast.pre.size - 1

\* C38: LinkedList refines an abstract sequence.  The values read by
\* traversal from head, and by GetAt(0..Size()-1), are those of the
\* sequence got by AddFirst = prepend, AddLast = append, InsertAt(i, v) =
\* insert before i, RemoveAt(i) = delete i, UpdateAt(i, v) = replace i,
\* Remove(v) = delete the first occurrence only, Update(old, new) = replace
\* the first occurrence only; IndexOf(v) is the index of the first
\* occurrence or -1, and Contains(v) holds iff IndexOf(v) >= 0.
C38_RefinesSequence ==
    llast.op # "idle" =>
        LET before == Contents(llast.pre)
            after == Contents(list)
            i == llast.index
            v == llast.value
            first == FirstOccurrence(before, v)
        IN /\ \A k \in 0..(list.size - 1) :
                 /\ GetAt(list, k).err = NoError
                 /\ k < Len(after)
                 /\ GetAt(list, k).val = after[k + 1]
           /\ Len(after) = list.size
           /\ llast.op = "AddFirst" => after = <<v>> \o before
           /\ llast.op = "AddLast" => after = Append(before, v)
           /\ (llast.op = "InsertAt" /\ llast.err = NoError)
                 => after = InsertedBefore(before, i, v)
           /\ (llast.op = "RemoveAt" /\ llast.err = NoError)
                 => after = Deleted(before, i)
           /\ (llast.op = "UpdateAt" /\ llast.err = NoError)
                 => /\ after = [before EXCEPT ![i + 1] = v]
                    /\ llast.val = before[i + 1]
           /\ (llast.op = "GetAt" /\ llast.err = NoError)
                 => /\ after = before
                    /\ llast.val = before[i + 1]
           /\ llast.op = "Remove"
                 => /\ llast.ok <=> first >= 0
                    /\ after = IF first >= 0 THEN Deleted(before, first) ELSE before
           /\ llast.op = "Update"
                 => /\ llast.ok <=> first >= 0
                    /\ after = IF first >= 0
                               THEN [before EXCEPT ![first + 1] = llast.newValue]
                               ELSE before
           /\ llast.op = "IndexOf"
                 => /\ llast.val = first
                    /\ after = before
           /\ llast.op = "Contains"
                 => /\ llast.ok <=> IndexOf(llast.pre, v) >= 0
                    /\ llast.ok <=> first >= 0
                    /\ after = before

\* Remove took the first of two occurrences, which was not at the head
C38_Witness ==
    /\ llast.op = "Remove"
    /\ llast.ok
    /\ FirstOccurrence(Contents(llast.pre), llast.value) >= 1
    /\ FirstOccurrence(Contents(list), llast.value) >= 1

\* InsertAt put a value in the middle of the list
C38_InsertWitness ==
    /\ llast.op = "InsertAt"
    /\ llast.err = NoError
    /\ llast.index >= 1
    /\ llast.index < llast.pre.size

\* C39: InsertAt fails with ErrorIndexOutOfRange exactly when index < 0 or
\* index > Size() (index == Size() appends); RemoveAt, GetAt and UpdateAt
\* fail exactly when index < 0 or index >= Size(); every failing call, and
\* every Remove or Update of an absent value (which returns false), leaves
\* head, tail, size and all node values unchanged.
C39_IndexErrors ==
    llast.op # "idle" =>
        LET size == llast.pre.size
            i == llast.index
        IN /\ llast.err \in {NoError, ErrorIndexOutOfRange}
           /\ llast.op = "InsertAt"
                 => /\ (llast.err = ErrorIndexOutOfRange) <=> (i < 0 \/ i > size)
                    /\ i = size
                          => /\ llast.err = NoError
                             /\ Contents(list)
                                  = Append(Contents(llast.pre), llast.value)
           /\ llast.op \in {"RemoveAt", "GetAt", "UpdateAt"}
                 => /\ (llast.err = ErrorIndexOutOfRange) <=> (i < 0 \/ i >= size)
                    /\ llast.err # NoError => llast.val = Zero
           /\ llast.err # NoError => list = llast.pre
           /\ (llast.op \in {"Remove", "Update"} /\ ~llast.ok)
                 => list = llast.pre
           /\ ( /\ llast.op \in {"Remove", "Update"}
                /\ \A k \in 1..Len(Contents(llast.pre)) :
                      Contents(llast.pre)[k] # llast.value )
                 => ~llast.ok /\ list = llast.pre

\* InsertAt one past the end of a list that is not empty fails
C39_Witness ==
    /\ llast.op = "InsertAt"
    /\ llast.pre.size >= 1
    /\ llast.index = llast.pre.size + 1
    /\ llast.err = ErrorIndexOutOfRange

\* InsertAt at index == Size() of a list that is not empty appends
C39_AppendWitness ==
    /\ llast.op = "InsertAt"
    /\ llast.pre.size >= 1
    /\ llast.index = llast.pre.size
    /\ llast.err = NoError

\* Remove of a value that a list of two or more elements does not hold
C39_AbsentWitness ==
    /\ llast.op = "Remove"
    /\ ~llast.ok
    /\ llast.pre.size >= 2

\* C40: a StandardArray has a fixed size: Size() and IsEmpty() never change
\* after construction under any sequence of GetAt and UpdateAt;
\* UpdateAt(i, v) with 0 <= i < Size() returns the previous element at i,
\* makes GetAt(i) return v and leaves the other indices unchanged; GetAt
\* and UpdateAt with i < 0 or i >= Size() return ErrorIndexOutOfRange with
\* the zero value and change nothing.
C40_ArrayFixedSize ==
    alast.op # "idle" =>
        LET pre == alast.pre
            i == alast.index
            size == Len(pre.data)
        IN /\ Len(arr.data) = size
           /\ StandardArraySize(arr) = StandardArraySize(pre)
           /\ StandardArrayIsEmpty(arr) = StandardArrayIsEmpty(pre)
           /\ alast.op = "Size" => alast.val = size
           /\ alast.op = "IsEmpty" => alast.val = (size = 0)
           /\ (alast.op = "UpdateAt" /\ 0 <= i /\ i < size)
                 => /\ alast.err = NoError
                    /\ alast.val = pre.data[i + 1]
                    /\ StandardArrayGetAt(arr, i).val = alast.value
                    /\ StandardArrayGetAt(arr, i).err = NoError
                    /\ \A k \in 1..size : k # i + 1 => arr.data[k] = pre.data[k]
           /\ (alast.op = "GetAt" /\ 0 <= i /\ i < size)
                 => /\ alast.err = NoError
                    /\ alast.val = pre.data[i + 1]
                    /\ arr = pre
           /\ (alast.op \in {"GetAt", "UpdateAt"} /\ (i < 0 \/ i >= size))
                 => /\ alast.err = ErrorIndexOutOfRange
                    /\ alast.val = Zero
                    /\ arr = pre

\* UpdateAt replaced an element of an array of two or more by another value
C40_Witness ==
    /\ alast.op = "UpdateAt"
    /\ alast.err = NoError
    /\ Len(arr.data) >= 2
    /\ alast.val # alast.value

\* UpdateAt at index == Size() of an array that is not empty fails
C40_ErrorWitness ==
    /\ alast.op = "UpdateAt"
    /\ alast.index = Len(arr.data)
    /\ Len(arr.data) >= 1
    /\ alast.err = ErrorIndexOutOfRange

====
